---- MODULE Spec2Model ----
(***************************************************************************)
(* A model of the SOCKS5 proxy of src/src/socks5_proxy.py: the server      *)
(* (start, stop, the accept loop), the connection handler (method          *)
(* negotiation, connect request, address parsing, dial, replies), the      *)
(* relay threads and the per-connection bandwidth throttler.               *)
(*                                                                         *)
(* Time is counted in units of reset_interval / (Ticks * M), so that every *)
(* delay get_delay computes is a whole number of units.  Bytes of the wire *)
(* formats and code points of address texts are numbers.                   *)
(***************************************************************************)
EXTENDS Integers, Sequences, FiniteSets, TLC

(***************************************************************************)
(* Bounds of the model.                                                    *)
(***************************************************************************)
MaxSessions == 2      \* connections the clients open
MaxMethods  == 2      \* largest NMETHODS a greeting announces
MaxChunks   == 2      \* chunks the peers of one session send
ServerChunks == 1     \* chunks the peers send while the server is observed
RecvSize    == 2      \* largest chunk one recv(4096) returns, in bytes
MaxStops    == 2      \* calls of stop() from outside start()
MaxRate     == 2      \* largest max_bytes_per_second of a configuration
MaxBurst    == 1      \* largest burst_size of a configuration
Ticks       == 2      \* time units per byte of budget in one window
MaxBytes    == 5      \* largest argument of a direct throttler call
MaxSent     == 5      \* the direct calls record at most this many bytes
MaxTime     == 5      \* the clock stops here
MaxCallers  == 2      \* threads calling the methods of one throttler
SecondsPerTick == 5   \* seconds in a time unit where a session is idle

(***************************************************************************)
(* Constants of SOCKS5Server.                                              *)
(***************************************************************************)
SOCKS_VERSION == 5
NO_AUTH == 0
USERNAME_PASSWORD == 2
NO_ACCEPTABLE_METHODS == 255
CONNECT == 1
BIND == 2
UDP_ASSOCIATE == 3
IPV4 == 1
DOMAIN_NAME == 3
IPV6 == 4
SUCCESS == 0
CONNECTION_REFUSED == 5
COMMAND_NOT_SUPPORTED == 7
ADDRESS_TYPE_NOT_SUPPORTED == 8
TARGET_TIMEOUT == 10  \* target_socket.settimeout(10), in seconds

Sessions == 1..MaxSessions
Directions == {"c2t", "t2c"}
Other(d) == IF d = "c2t" THEN "t2c" ELSE "c2t"

Max(a, b) == IF a >= b THEN a ELSE b
Min(a, b) == IF a <= b THEN a ELSE b

VARIABLES
    config,                  \* BandwidthConfig given to the server
    now,                     \* time.time()
    running,                 \* SOCKS5Server.running
    server_socket,           \* SOCKS5Server.server_socket
    client_count,            \* SOCKS5Server.client_count
    total_bytes_transferred, \* SOCKS5Server.total_bytes_transferred
    startPc,                 \* where the thread that called start() is
    startOutcome,            \* how start() ended, as its caller sees it
    bindFailed,              \* bind or listen raised in start()
    stopPc,                  \* where the thread that calls stop() is
    stopCalls,               \* calls of stop() from outside that returned
    stopWhileListening,      \* such a call began with the accept loop blocked
    hpc,                     \* per session: where _handle_client is
    csock,                   \* per session: the client socket
    tsock,                   \* per session: the destination socket
    log,                     \* per session: the recv, send and connect calls of
                             \* the handshake, in the order they were made
    greet,                   \* per session: what the reads of the greeting returned
    req,                     \* per session: what the reads of the request returned
    dial,                    \* per session: how connect() ended
    throttler,               \* per session: its BandwidthThrottler
    rpc,                     \* per session and direction: where forward_data is
    chunk,                   \* per session and direction: len(data)
    tmp,                     \* per session and direction: the total read by +=
    wake,                    \* per session: when time.sleep(delay) may return
    relayed,                 \* per session and direction: bytes of chunks sent
    chunks,                  \* chunks received over all relays
    winBytes,                \* per session: bytes written to the destination
                             \* inside the throttler's current window
    ret,                     \* the last direct call of a throttler method:
                             \* its argument, the throttler and the time it
                             \* found, and what it returned
    accept_error,            \* what the last "except socket.error" of the
                             \* accept loop did: "logged" or "silent"
    lock,                    \* BandwidthThrottler.lock of throttler[1]: the
                             \* calling thread that holds it, 0 if free
    caller,                  \* per calling thread: the method of throttler[1]
                             \* it is in, and where
    proxy_config,            \* the class attributes of ProxyConfig
    validated,               \* how ProxyConfig.validate_config() ended
    silent,                  \* per session: for how long the recv of the
                             \* target->client thread has had no data
    timed_out,               \* per session: that recv raised socket.timeout
    stream                   \* per session and direction: how many bytes
                             \* recv has returned (they are numbered from 1
                             \* in their order) and the numbers of the bytes
                             \* send has accepted, in their order

serverVars == <<running, server_socket, client_count, startPc, startOutcome,
                bindFailed, stopPc, stopCalls, stopWhileListening>>
handlerVars == <<hpc, csock, tsock, log, greet, req, dial>>
relayVars == <<rpc, chunk, tmp, wake, relayed, chunks, winBytes,
               total_bytes_transferred>>
lockVars == <<lock, caller, proxy_config, validated>>
linkVars == <<silent, timed_out, stream>>
auxVars == <<lockVars, linkVars>>
vars == <<config, now, serverVars, handlerVars, throttler, relayVars, ret,
          accept_error, auxVars>>

(***************************************************************************)
(* BandwidthConfig.  reset_interval is one window in time units.           *)
(***************************************************************************)
BandwidthConfig(m, b) ==
    [max_bytes_per_second |-> m, burst_size |-> b,
     reset_interval |-> IF m = 0 THEN Ticks ELSE Ticks * m]

(***************************************************************************)
(* BandwidthThrottler.  A throttler is [bytes_sent, last_reset]; every     *)
(* operation is one critical section (with self.lock) and is given the     *)
(* value time.time() returns inside it.                                    *)
(***************************************************************************)
NewThrottler(t) == [bytes_sent |-> 0, last_reset |-> t]

Expired(th, t) == t - th.last_reset >= config.reset_interval

\* The throttler after can_send's or get_delay's expiry check.
AfterExpiryCheck(th, t) ==
    IF config.max_bytes_per_second = 0 THEN th
    ELSE IF Expired(th, t) THEN [bytes_sent |-> 0, last_reset |-> t]
    ELSE th

\* can_send without the burst allowance.
can_send_no_burst(th, n, t) ==
    IF config.max_bytes_per_second = 0 THEN TRUE
    ELSE LET after == AfterExpiryCheck(th, t)
         IN  after.bytes_sent + n <= config.max_bytes_per_second

can_send(th, n, t) ==
    IF config.max_bytes_per_second = 0 THEN TRUE
    ELSE LET after == AfterExpiryCheck(th, t)
         IN  \/ after.bytes_sent + n <= config.max_bytes_per_second
             \/ /\ config.burst_size > 0
                /\ after.bytes_sent + n
                     <= config.max_bytes_per_second + config.burst_size

record_sent(th, n) == [th EXCEPT !.bytes_sent = @ + n]

\* get_delay treating max_bytes_per_second = 0 as a limit of no bytes at all.
get_delay_zero_is_limit(th, n, t) ==
    IF Expired(th, t) THEN 0
    ELSE LET time_remaining == config.reset_interval - (t - th.last_reset)
             bytes_available ==
                 Max(0, config.max_bytes_per_second - th.bytes_sent)
             excess_bytes == n - bytes_available
         IN  IF n <= bytes_available THEN 0
             ELSE IF config.max_bytes_per_second = 0 THEN time_remaining
             ELSE Min((excess_bytes * config.reset_interval)
                          \div config.max_bytes_per_second, time_remaining)

\* get_delay with bytes_available = max_bytes_per_second - bytes_sent, which
\* goes below zero.
get_delay_no_floor(th, n, t) ==
    IF config.max_bytes_per_second = 0 THEN 0
    ELSE IF Expired(th, t) THEN 0
    ELSE LET time_remaining == config.reset_interval - (t - th.last_reset)
             bytes_available == config.max_bytes_per_second - th.bytes_sent
             excess_bytes == n - bytes_available
             delay == (excess_bytes * config.reset_interval)
                          \div config.max_bytes_per_second
         IN  IF n <= bytes_available THEN 0
             ELSE Min(delay, time_remaining)

\* get_delay returning the delay without the cap at time_remaining.
get_delay_uncapped(th, n, t) ==
    IF config.max_bytes_per_second = 0 THEN 0
    ELSE IF Expired(th, t) THEN 0
    ELSE LET bytes_available ==
                 Max(0, config.max_bytes_per_second - th.bytes_sent)
             excess_bytes == n - bytes_available
             delay == (excess_bytes * config.reset_interval)
                          \div config.max_bytes_per_second
         IN  IF n <= bytes_available THEN 0
             ELSE delay

\* get_delay that resets an expired window and then goes on to compute the
\* delay in the new one instead of returning 0.0.
get_delay_reset_falls_through(th, n, t) ==
    IF config.max_bytes_per_second = 0 THEN 0
    ELSE LET after == AfterExpiryCheck(th, t)
             time_remaining == config.reset_interval - (t - after.last_reset)
             bytes_available ==
                 Max(0, config.max_bytes_per_second - after.bytes_sent)
             excess_bytes == n - bytes_available
             delay == (excess_bytes * config.reset_interval)
                          \div config.max_bytes_per_second
         IN  IF n <= bytes_available THEN 0
             ELSE Min(delay, time_remaining)

get_delay(th, n, t) ==
    IF config.max_bytes_per_second = 0 THEN 0
    ELSE IF Expired(th, t) THEN 0
    ELSE LET time_remaining == config.reset_interval - (t - th.last_reset)
             bytes_available ==
                 Max(0, config.max_bytes_per_second - th.bytes_sent)
             excess_bytes == n - bytes_available
             delay == (excess_bytes * config.reset_interval)
                          \div config.max_bytes_per_second
         IN  IF n <= bytes_available THEN 0
             ELSE Min(delay, time_remaining)

\* A direct call of a throttler method, as test_bandwidth_throttler makes
\* them: op(n) found the throttler th at time t and returned ok (can_send)
\* or delay (get_delay).
Call(op, n, th, t, ok, delay) ==
    [op |-> op, n |-> n, th |-> th, t |-> t, ok |-> ok, delay |-> delay]
NoCall == Call("none", 0, NewThrottler(0), 0, TRUE, 0)

(***************************************************************************)
(* The methods of one BandwidthThrottler, throttler[1], statement by       *)
(* statement, called by several threads at once.  A calling thread is      *)
(* [op, n, pc, t, reset, rd, seen, ok, delay]: the method and its          *)
(* argument, where the thread is, its current_time, whether its expiry     *)
(* check reset the window, the counter value its += read, the throttler it *)
(* found when it got the lock, and what it returns.                        *)
(***************************************************************************)
Callers == 1..MaxCallers

NotCalling == [op |-> "none", n |-> 0, pc |-> "idle", t |-> 0,
               reset |-> FALSE, rd |-> 0, seen |-> NewThrottler(0),
               ok |-> TRUE, delay |-> 0]

\* The call of a method: can_send and get_delay return at once when
\* max_bytes_per_second is 0, everything else goes for the lock.
LockBegin(c, op, n) ==
    /\ caller[c].pc \in {"idle", "returned"}
    /\ caller' = [caller EXCEPT ![c] =
          [NotCalling EXCEPT !.op = op, !.n = n,
              !.pc = IF op # "record_sent" /\ config.max_bytes_per_second = 0
                     THEN "returned" ELSE "acquire"]]
    /\ UNCHANGED <<config, ret, now, accept_error, lock, proxy_config,
                   validated, linkVars, serverVars, handlerVars, throttler, relayVars>>

\* "with self.lock" entered without waiting for the lock to be free.
LockAcquire_no_wait(c) ==
    /\ caller[c].pc = "acquire"
    /\ lock' = c
    /\ caller' = [caller EXCEPT ![c].seen = throttler[1],
          ![c].pc = IF caller[c].op = "record_sent" THEN "read" ELSE "time"]
    /\ UNCHANGED <<config, ret, now, accept_error, proxy_config, validated,
                   linkVars, serverVars, handlerVars, throttler, relayVars>>

\* with self.lock: the thread waits until the lock is free and takes it.
LockAcquire(c) ==
    /\ caller[c].pc = "acquire"
    /\ lock = 0
    /\ lock' = c
    /\ caller' = [caller EXCEPT ![c].seen = throttler[1],
          ![c].pc = IF caller[c].op = "record_sent" THEN "read" ELSE "time"]
    /\ UNCHANGED <<config, ret, now, accept_error, proxy_config, validated,
                   linkVars, serverVars, handlerVars, throttler, relayVars>>

\* current_time = time.time()
LockTime(c) ==
    /\ caller[c].pc = "time"
    /\ caller' = [caller EXCEPT ![c].t = now, ![c].pc = "check"]
    /\ UNCHANGED <<config, ret, now, accept_error, lock, proxy_config,
                   validated, linkVars, serverVars, handlerVars, throttler, relayVars>>

\* if current_time - self.last_reset >= self.config.reset_interval
LockCheck(c) ==
    /\ caller[c].pc = "check"
    /\ caller' = [caller EXCEPT
          ![c].reset = Expired(throttler[1], caller[c].t),
          ![c].pc = IF Expired(throttler[1], caller[c].t)
                    THEN "reset_bytes" ELSE "compute"]
    /\ UNCHANGED <<config, ret, now, accept_error, lock, proxy_config,
                   validated, linkVars, serverVars, handlerVars, throttler, relayVars>>

\* self.bytes_sent = 0
LockResetBytes(c) ==
    /\ caller[c].pc = "reset_bytes"
    /\ throttler' = [throttler EXCEPT ![1].bytes_sent = 0]
    /\ caller' = [caller EXCEPT ![c].pc = "reset_time"]
    /\ UNCHANGED <<config, ret, now, accept_error, lock, proxy_config,
                   validated, linkVars, serverVars, handlerVars, relayVars>>

\* self.last_reset = current_time; get_delay then returns 0.0
LockResetTime(c) ==
    /\ caller[c].pc = "reset_time"
    /\ throttler' = [throttler EXCEPT ![1].last_reset = caller[c].t]
    /\ caller' = [caller EXCEPT
          ![c].pc = IF caller[c].op = "get_delay" THEN "release"
                    ELSE "compute"]
    /\ UNCHANGED <<config, ret, now, accept_error, lock, proxy_config,
                   validated, linkVars, serverVars, handlerVars, relayVars>>

\* The rest of can_send (the two comparisons) or of get_delay (the delay
\* from the counter and the window start as they are now).
LockCompute(c) ==
    /\ caller[c].pc = "compute"
    /\ LET th == throttler[1]
           n == caller[c].n
           M == config.max_bytes_per_second
           time_remaining ==
               config.reset_interval - (caller[c].t - th.last_reset)
           bytes_available == Max(0, M - th.bytes_sent)
           delay == ((n - bytes_available) * config.reset_interval) \div M
       IN  caller' = [caller EXCEPT
             ![c].ok = IF caller[c].op # "can_send" THEN TRUE
                       ELSE \/ th.bytes_sent + n <= M
                            \/ /\ config.burst_size > 0
                               /\ th.bytes_sent + n <= M + config.burst_size,
             ![c].delay = IF caller[c].op # "get_delay" THEN 0
                          ELSE IF n <= bytes_available THEN 0
                          ELSE Min(delay, time_remaining),
             ![c].pc = "release"]
    /\ UNCHANGED <<config, ret, now, accept_error, lock, proxy_config,
                   validated, linkVars, serverVars, handlerVars, throttler, relayVars>>

\* self.bytes_sent += bytes_sent: the read of the counter
LockRead(c) ==
    /\ caller[c].pc = "read"
    /\ caller' = [caller EXCEPT ![c].rd = throttler[1].bytes_sent,
                                ![c].pc = "write"]
    /\ UNCHANGED <<config, ret, now, accept_error, lock, proxy_config,
                   validated, linkVars, serverVars, handlerVars, throttler, relayVars>>

\* self.bytes_sent += bytes_sent: the store of the sum
LockWrite(c) ==
    /\ caller[c].pc = "write"
    /\ throttler' = [throttler EXCEPT
                         ![1].bytes_sent = caller[c].rd + caller[c].n]
    /\ caller' = [caller EXCEPT ![c].pc = "release"]
    /\ UNCHANGED <<config, ret, now, accept_error, lock, proxy_config,
                   validated, linkVars, serverVars, handlerVars, relayVars>>

\* The end of the with block: the lock is released and the method returns.
LockRelease(c) ==
    /\ caller[c].pc = "release"
    /\ lock' = 0
    /\ caller' = [caller EXCEPT ![c] = NotCalling]
    /\ UNCHANGED <<config, ret, now, accept_error, proxy_config, validated,
                   linkVars, serverVars, handlerVars, throttler, relayVars>>

(***************************************************************************)
(* ProxyConfig.  Its attributes are read from the environment when the     *)
(* class is created: int() gives any integer, float() any float, the       *)
(* not-a-number included.  A float is [nan, v]; every comparison with a    *)
(* not-a-number is false.                                                  *)
(***************************************************************************)
MAX_PORT == 65535

Float(v) == [nan |-> FALSE, v |-> v]
NaN == [nan |-> TRUE, v |-> 0]
FloatLe(x, k) == ~x.nan /\ x.v <= k
FloatGt(x, k) == ~x.nan /\ x.v > k

DefaultProxyConfig ==
    [PROXY_PORT |-> 1080, MAX_BYTES_PER_SECOND |-> 0, BURST_SIZE |-> 0,
     RESET_INTERVAL |-> Float(1), MAX_CONNECTIONS |-> 100,
     CONNECTION_TIMEOUT |-> 10]

\* The ProxyConfig classes the environment can give.
ProxyConfigs ==
    [PROXY_PORT : {0, 1, MAX_PORT, MAX_PORT + 1},
     MAX_BYTES_PER_SECOND : {-1, 0, 1},
     BURST_SIZE : {-1, 0, 1},
     RESET_INTERVAL : {Float(-1), Float(0), Float(1), NaN},
     MAX_CONNECTIONS : {0, 1},
     CONNECTION_TIMEOUT : {0, 1}]

\* The checks of validate_config in their order; each appends its message.
ConfigChecks == <<"port", "bandwidth limit", "burst size", "reset interval",
                  "max connections", "connection timeout">>

CheckFails(cfg, name) ==
    CASE name = "port" -> ~(1 <= cfg.PROXY_PORT /\ cfg.PROXY_PORT <= MAX_PORT)
      [] name = "bandwidth limit" -> cfg.MAX_BYTES_PER_SECOND < 0
      [] name = "burst size" -> cfg.BURST_SIZE < 0
      [] name = "reset interval" -> FloatLe(cfg.RESET_INTERVAL, 0)
      [] name = "max connections" -> cfg.MAX_CONNECTIONS <= 0
      [] name = "connection timeout" -> cfg.CONNECTION_TIMEOUT <= 0

NotValidated == [result |-> "none", errors |-> <<>>]

\* validate_config: True, or ValueError with the messages collected.
validate_config(cfg) ==
    LET Fails(name) == CheckFails(cfg, name)
        errors == SelectSeq(ConfigChecks, Fails)
    IN  IF errors # <<>> THEN [result |-> "ValueError", errors |-> errors]
        ELSE [result |-> "True", errors |-> <<>>]

\* ProxyConfig.validate_config()
ValidateConfig ==
    /\ validated' = validate_config(proxy_config)
    /\ UNCHANGED <<config, ret, now, accept_error, lock, caller, proxy_config,
                   linkVars, serverVars, handlerVars, throttler, relayVars>>

(***************************************************************************)
(* SOCKS5Server.stop, run by whichever thread calls it, in two steps: the  *)
(* write of running, then the close of the listening socket.               *)
(***************************************************************************)
\* server_socket.close(): "none" is the None of __init__ and stays.
Closed(sock) == IF sock = "none" THEN "none" ELSE "closed"

(***************************************************************************)
(* SOCKS5Server.start, on the thread that calls it.                        *)
(***************************************************************************)
\* socket(), setsockopt, bind, listen: all succeed, or one of them raises.
StartBind(ok) ==
    /\ startPc = "idle"
    /\ IF ok
       THEN /\ server_socket' = "listening"
            /\ startPc' = "bound"
            /\ UNCHANGED bindFailed
       ELSE /\ server_socket' = "unbound"
            /\ startPc' = "finally"
            /\ bindFailed' = TRUE
    /\ UNCHANGED <<config, ret, auxVars, accept_error,
                   now, running, client_count, startOutcome, stopPc,
                   stopCalls, stopWhileListening, handlerVars, throttler,
                   relayVars>>

\* self.running = True
StartSetRunning ==
    /\ startPc = "bound"
    /\ running' = TRUE
    /\ startPc' = "loop"
    /\ UNCHANGED <<config, ret, auxVars, accept_error,
                   now, server_socket, client_count, startOutcome,
                   bindFailed, stopPc, stopCalls, stopWhileListening,
                   handlerVars, throttler, relayVars>>

\* while self.running: ... self.server_socket.accept() is called; on a socket
\* that is closed it raises at once, on a listening one it blocks.
StartLoop ==
    /\ startPc = "loop"
    /\ startPc' = IF ~running THEN "finally"
                  ELSE IF server_socket = "listening" THEN "in_accept"
                  ELSE "accept_err"
    /\ UNCHANGED <<config, ret, auxVars, accept_error,
                   now, running, server_socket, client_count,
                   startOutcome, bindFailed, stopPc, stopCalls,
                   stopWhileListening, handlerVars, throttler, relayVars>>

\* The session the next accepted connection becomes.
NextSession == CHOOSE s \in Sessions :
                   /\ csock[s] = "none"
                   /\ \A r \in Sessions : r < s => csock[r] # "none"

\* AcceptReturn without self.client_count += 1.
AcceptReturn_no_count ==
    /\ startPc = "in_accept"
    /\ \E s \in Sessions : csock[s] = "none"
    /\ csock' = [csock EXCEPT ![NextSession] = "open"]
    /\ startPc' = "dispatch"
    /\ UNCHANGED <<config, ret, auxVars, accept_error,
                   now, running, server_socket, client_count,
                   startOutcome, bindFailed, stopPc, stopCalls,
                   stopWhileListening, hpc, tsock, log, greet, req, dial,
                   throttler, relayVars>>

\* accept() returns a connection; self.client_count += 1.
AcceptReturn ==
    /\ startPc = "in_accept"
    /\ \E s \in Sessions : csock[s] = "none"
    /\ csock' = [csock EXCEPT ![NextSession] = "open"]
    /\ client_count' = client_count + 1
    /\ startPc' = "dispatch"
    /\ UNCHANGED <<config, ret, auxVars, accept_error,
                   now, running, server_socket, startOutcome,
                   bindFailed, stopPc, stopCalls, stopWhileListening, hpc,
                   tsock, log, greet, req, dial, throttler, relayVars>>

\* Dispatch by a loop that serves one connection at a time: it goes on only
\* when no earlier session is still being handled.
Dispatch_waits ==
    /\ startPc = "dispatch"
    /\ \A r \in Sessions : hpc[r] \in {"none", "done"}
    /\ \E s \in Sessions :
          /\ csock[s] # "none"
          /\ hpc[s] = "none"
          /\ hpc' = [hpc EXCEPT ![s] = "start"]
    /\ startPc' = "loop"
    /\ UNCHANGED <<config, ret, auxVars, accept_error,
                   now, running, server_socket, client_count,
                   startOutcome, bindFailed, stopPc, stopCalls,
                   stopWhileListening, csock, tsock, log, greet, req, dial,
                   throttler, relayVars>>

\* threading.Thread(target=self._handle_client, ...).start()
Dispatch ==
    /\ startPc = "dispatch"
    /\ \E s \in Sessions :
          /\ csock[s] # "none"
          /\ hpc[s] = "none"
          /\ hpc' = [hpc EXCEPT ![s] = "start"]
    /\ startPc' = "loop"
    /\ UNCHANGED <<config, ret, auxVars, accept_error,
                   now, running, server_socket, client_count,
                   startOutcome, bindFailed, stopPc, stopCalls,
                   stopWhileListening, csock, tsock, log, greet, req, dial,
                   throttler, relayVars>>

\* accept() raises socket.error while it blocks (a connection aborted, no
\* descriptors left).
AcceptRaise ==
    /\ startPc = "in_accept"
    /\ startPc' = "accept_err"
    /\ UNCHANGED <<config, ret, auxVars, accept_error,
                   now, running, server_socket, client_count,
                   startOutcome, bindFailed, stopPc, stopCalls,
                   stopWhileListening, handlerVars, throttler, relayVars>>

\* AcceptExcept logging the error whether or not the server is running.
AcceptExcept_always_logs ==
    /\ startPc = "accept_err"
    /\ accept_error' = "logged"
    /\ startPc' = "loop"
    /\ UNCHANGED <<config, ret, auxVars, now, running, server_socket,
                   client_count, startOutcome, bindFailed, stopPc, stopCalls,
                   stopWhileListening, handlerVars, throttler, relayVars>>

\* except socket.error: logged if self.running; the loop goes on.
AcceptExcept ==
    /\ startPc = "accept_err"
    /\ accept_error' = IF running THEN "logged" ELSE "silent"
    /\ startPc' = "loop"
    /\ UNCHANGED <<config, ret, auxVars,
                   now, running, server_socket, client_count,
                   startOutcome, bindFailed, stopPc, stopCalls,
                   stopWhileListening, handlerVars, throttler, relayVars>>

\* finally: self.stop(), first step.
StartFinally ==
    /\ startPc = "finally"
    /\ running' = FALSE
    /\ startPc' = "finally_close"
    /\ UNCHANGED <<config, ret, auxVars, accept_error,
                   now, server_socket, client_count, startOutcome,
                   bindFailed, stopPc, stopCalls, stopWhileListening,
                   handlerVars, throttler, relayVars>>

\* finally: self.stop(), second step; then start() returns.  The exception of
\* a failed bind was caught by "except Exception" and logged, so start()
\* returns normally on both paths.
StartReturn ==
    /\ startPc = "finally_close"
    /\ server_socket' = Closed(server_socket)
    /\ startPc' = "returned"
    /\ startOutcome' = "returned"
    /\ UNCHANGED <<config, ret, auxVars, accept_error,
                   now, running, client_count, bindFailed, stopPc,
                   stopCalls, stopWhileListening, handlerVars, throttler,
                   relayVars>>

(***************************************************************************)
(* stop() called from another thread.                                      *)
(***************************************************************************)
\* StopSetRunning flipping the flag instead of clearing it.
StopSetRunning_toggle ==
    /\ stopPc = "idle"
    /\ stopCalls < MaxStops
    /\ running' = ~running
    /\ stopPc' = "close"
    /\ stopWhileListening' =
          (stopWhileListening \/ (running /\ startPc = "in_accept"))
    /\ UNCHANGED <<config, ret, auxVars, accept_error,
                   now, server_socket, client_count, startPc,
                   startOutcome, bindFailed, stopCalls, handlerVars, throttler,
                   relayVars>>

\* self.running = False
StopSetRunning ==
    /\ stopPc = "idle"
    /\ stopCalls < MaxStops
    /\ running' = FALSE
    /\ stopPc' = "close"
    /\ stopWhileListening' =
          (stopWhileListening \/ (running /\ startPc = "in_accept"))
    /\ UNCHANGED <<config, ret, auxVars, accept_error,
                   now, server_socket, client_count, startPc,
                   startOutcome, bindFailed, stopCalls, handlerVars, throttler,
                   relayVars>>

\* StopClose closing the sockets of the accepted clients as well.
StopClose_closes_clients(woken) ==
    /\ stopPc = "close"
    /\ server_socket' = Closed(server_socket)
    /\ csock' = [s \in Sessions |-> Closed(csock[s])]
    /\ IF startPc = "in_accept" /\ server_socket = "listening" /\ woken
       THEN startPc' = "accept_err"
       ELSE UNCHANGED startPc
    /\ stopPc' = "idle"
    /\ stopCalls' = stopCalls + 1
    /\ UNCHANGED <<config, ret, auxVars, accept_error,
                   now, running, client_count, startOutcome,
                   bindFailed, stopWhileListening, hpc, tsock, log, greet,
                   req, dial, throttler, relayVars>>

\* self.server_socket.close().  A thread blocked in accept() on that socket
\* either gets an error (woken) or stays blocked, as the platform decides:
\* on Linux close() does not end an accept() in progress.
StopClose(woken) ==
    /\ stopPc = "close"
    /\ server_socket' = Closed(server_socket)
    /\ IF startPc = "in_accept" /\ server_socket = "listening" /\ woken
       THEN startPc' = "accept_err"
       ELSE UNCHANGED startPc
    /\ stopPc' = "idle"
    /\ stopCalls' = stopCalls + 1
    /\ UNCHANGED <<config, ret, auxVars, accept_error,
                   now, running, client_count, startOutcome,
                   bindFailed, stopWhileListening, handlerVars, throttler,
                   relayVars>>

(***************************************************************************)
(* Library conversions the codec calls.  A bytes object is a sequence of   *)
(* numbers below 256, a str the sequence of its code points.               *)
(***************************************************************************)
Dot == <<46>>

RECURSIVE Digits(_)
Digits(n) == IF n < 10 THEN <<48 + n>>
             ELSE Digits(n \div 10) \o <<48 + (n % 10)>>

\* socket.inet_ntoa: four bytes to dotted decimal.
inet_ntoa(q) ==
    Digits(q[1]) \o Dot \o Digits(q[2]) \o Dot \o Digits(q[3]) \o Dot
        \o Digits(q[4])

RECURSIVE SplitDots(_)
SplitDots(t) ==
    IF \A i \in 1..Len(t) : t[i] # 46 THEN <<t>>
    ELSE LET k == CHOOSE i \in 1..Len(t) :
                      t[i] = 46 /\ \A j \in 1..(i - 1) : t[j] # 46
         IN  <<SubSeq(t, 1, k - 1)>> \o SplitDots(SubSeq(t, k + 1, Len(t)))

RECURSIVE Decimal(_)
Decimal(p) == IF p = <<>> THEN 0
              ELSE Decimal(SubSeq(p, 1, Len(p) - 1)) * 10 + (p[Len(p)] - 48)

RECURSIVE Pow256(_)
Pow256(k) == IF k = 0 THEN 1 ELSE 256 * Pow256(k - 1)

RECURSIVE BigEndian(_, _)
BigEndian(v, k) == IF k = 0 THEN <<>>
                   ELSE BigEndian(v \div 256, k - 1) \o <<v % 256>>

\* socket.inet_aton accepts a, a.b, a.b.c and a.b.c.d in decimal (the last
\* part fills the bytes that remain) and raises OSError on anything else.
inet_aton_ok(t) ==
    LET ps == SplitDots(t)
    IN  /\ Len(ps) \in 1..4
        /\ \A i \in 1..Len(ps) :
              /\ ps[i] # <<>>
              /\ Len(ps[i]) <= 10
              /\ \A j \in 1..Len(ps[i]) : ps[i][j] >= 48 /\ ps[i][j] <= 57
        /\ \A i \in 1..(Len(ps) - 1) : Decimal(ps[i]) <= 255
        /\ Decimal(ps[Len(ps)]) < Pow256(5 - Len(ps))

inet_aton(t) ==
    LET ps == SplitDots(t)
    IN  [i \in 1..(Len(ps) - 1) |-> Decimal(ps[i])]
            \o BigEndian(Decimal(ps[Len(ps)]), 5 - Len(ps))

\* bytes.decode('utf-8') on the byte strings of the model: ASCII decodes to
\* itself, 0xFF is in no UTF-8 sequence and raises UnicodeDecodeError.
decode_ok(b) == \A i \in 1..Len(b) : b[i] < 128

Loopback6 == [i \in 1..16 |-> IF i = 16 THEN 1 ELSE 0]

\* socket.inet_ntop(AF_INET6, ...): "::1" for the loopback address, "::" for
\* the unspecified one (the IPv6 addresses of the model).
inet_ntop6(b) == IF b = Loopback6 THEN <<58, 58, 49>> ELSE <<58, 58>>

\* struct.unpack('!H', port_data)[0] and struct.pack('!H', port)
unpack_H(b) == b[1] * 256 + b[2]
pack_H(v) == <<(v \div 256) % 256, v % 256>>

(***************************************************************************)
(* What target_socket.connect((dest_addr, dest_port)) can do on the        *)
(* AF_INET socket of _handle_connection_request: connect ("ok"), raise     *)
(* socket.error (refused, unreachable, timed out, name not resolved; an    *)
(* IPv6 text always: the socket's family does not take it), or raise       *)
(* another exception (a host name holding a NUL).                          *)
(***************************************************************************)
ConnectOutcomes(host) ==
    IF \E i \in 1..Len(host) : host[i] = 0 THEN {"other_error"}
    ELSE IF \E i \in 1..Len(host) : host[i] = 58 THEN {"socket_error"}
    ELSE {"ok", "socket_error"}

(***************************************************************************)
(* What a client has sent when the handler reads, field by field as the    *)
(* reads return it: a field shorter than the length read is a short read   *)
(* (the client sent no more).  A recv that raises ends the handler as a    *)
(* short read does (the except clauses return False or None).              *)
(***************************************************************************)
Greeting(h, m) == [head |-> h, methods |-> m]
Request(h, l, a, p) == [head |-> h, lenbyte |-> l, addr |-> a, port |-> p]

NoGreeting == Greeting(<<>>, <<>>)
NoRequest == Request(<<>>, <<>>, <<>>, <<>>)

MethodLists(n) == UNION {[1..k -> {NO_AUTH, USERNAME_PASSWORD}] : k \in 0..n}

Greetings ==
    {Greeting(h, <<>>) : h \in {<<>>, <<SOCKS_VERSION>>, <<4>>}}
        \cup UNION {{Greeting(<<v, n>>, m) : m \in MethodLists(n)} :
                        v \in {4, SOCKS_VERSION}, n \in 0..MaxMethods}

Addr4 == <<127, 0, 0, 1>>
Port80 == <<0, 80>>
HostName == <<104, 46, 99>>       \* "h.c"
HostNumeric == <<49, 46, 49>>     \* "1.1", which inet_aton takes
HostNul == <<97, 0, 98>>          \* "a\0b"
HostBadUtf8 == <<255>>
Ports == {<<0>>, Port80}
Atyps == {IPV4, 2, DOMAIN_NAME, IPV6}

Requests ==
    {Request(h, <<>>, <<>>, <<>>) : h \in {<<>>, <<SOCKS_VERSION, CONNECT>>}}
        \cup {Request(<<v, c, 0, a>>, <<>>, Addr4, Port80) :
                  v \in {4, SOCKS_VERSION},
                  c \in {CONNECT, BIND, UDP_ASSOCIATE}, a \in {IPV4, 2}}
        \cup {Request(<<SOCKS_VERSION, CONNECT, 0, IPV4>>, <<>>, a, p) :
                  a \in {<<127, 0>>, Addr4}, p \in Ports}
        \cup {Request(<<SOCKS_VERSION, c, 0, DOMAIN_NAME>>, <<Len(a)>>, a, p) :
                  c \in {CONNECT, BIND},
                  a \in {HostName, HostNumeric, HostNul, HostBadUtf8, <<>>},
                  p \in Ports}
        \cup {Request(<<SOCKS_VERSION, CONNECT, 0, DOMAIN_NAME>>, <<>>, <<>>, <<>>),
              Request(<<SOCKS_VERSION, CONNECT, 0, DOMAIN_NAME>>, <<3>>, <<104>>, <<>>)}
        \cup {Request(<<SOCKS_VERSION, c, 0, IPV6>>, <<>>, a, p) :
                  c \in {CONNECT, UDP_ASSOCIATE},
                  a \in {<<0, 0>>, Loopback6}, p \in Ports}

\* The greetings and requests of the sessions when it is the server or the
\* throttler that is observed.
FewGreetings == {Greeting(<<SOCKS_VERSION, 1>>, <<NO_AUTH>>)}
FewRequests == {Request(<<SOCKS_VERSION, c, 0, IPV4>>, <<>>, Addr4, Port80) :
                    c \in {CONNECT, BIND}}

\* The calls the handshake makes, as the log keeps them.
Recv(n) == [op |-> "recv", n |-> n, data |-> <<>>]
SendMsg(m) == [op |-> "send", n |-> Len(m), data |-> m]
ConnectCall == [op |-> "connect", n |-> 0, data |-> <<>>]

RECURSIVE SentIn(_)
SentIn(l) == IF l = <<>> THEN <<>>
             ELSE (IF Head(l).op = "send" THEN <<Head(l).data>> ELSE <<>>)
                      \o SentIn(Tail(l))

\* The messages session s has sent to its client in the handshake.
Sent(s) == SentIn(log[s])

\* The lengths of the reads session s has made in the handshake.
RECURSIVE ReadsIn(_)
ReadsIn(l) == IF l = <<>> THEN <<>>
              ELSE (IF Head(l).op = "recv" THEN <<Head(l).n>> ELSE <<>>)
                       \o ReadsIn(Tail(l))

(***************************************************************************)
(* The replies of the codec.                                               *)
(***************************************************************************)
MethodReply(m) == <<SOCKS_VERSION, m>>

\* _send_error_response repeating the request's form of reply header only.
ErrorReply_header_only(code) == <<SOCKS_VERSION, code, 0, IPV4>>

\* _send_error_response
ErrorReply(code) == <<SOCKS_VERSION, code, 0, IPV4>> \o <<0, 0, 0, 0>> \o pack_H(0)

\* _send_success_response(client_socket, bind_addr, bind_port): the messages
\* it sends.  inet_aton raising is caught and logged, and nothing is sent.
SuccessReplies(bind_addr, bind_port) ==
    IF inet_aton_ok(bind_addr)
    THEN <<SendMsg(<<SOCKS_VERSION, SUCCESS, 0, IPV4>> \o inet_aton(bind_addr)
                       \o pack_H(bind_port))>>
    ELSE <<>>

(***************************************************************************)
(* _parse_address: [some, addr, port, calls]; some = FALSE is (None, None) *)
(* and calls are the reads it made.                                        *)
(***************************************************************************)
NoAddress(calls) == [some |-> FALSE, addr |-> <<>>, port |-> 0, calls |-> calls]

\* port_data = client_socket.recv(2) and the return of (addr, port)
ParsePort(r, a, calls) ==
    IF Len(r.port) # 2 THEN NoAddress(calls \o <<Recv(2)>>)
    ELSE [some |-> TRUE, addr |-> a, port |-> unpack_H(r.port),
          calls |-> calls \o <<Recv(2)>>]

\* parse_address with the final "else: return None, None" missing, so that an
\* unknown address type falls through to the read of the port.
parse_address_no_else(r, atyp) ==
    IF atyp = IPV4
    THEN IF Len(r.addr) # 4 THEN NoAddress(<<Recv(4)>>)
         ELSE ParsePort(r, inet_ntoa(r.addr), <<Recv(4)>>)
    ELSE IF atyp = DOMAIN_NAME
    THEN IF r.lenbyte = <<>> THEN NoAddress(<<Recv(1)>>)
         ELSE IF Len(r.addr) # r.lenbyte[1]
         THEN NoAddress(<<Recv(1), Recv(r.lenbyte[1])>>)
         ELSE IF ~decode_ok(r.addr)
         THEN NoAddress(<<Recv(1), Recv(r.lenbyte[1])>>)
         ELSE ParsePort(r, r.addr, <<Recv(1), Recv(r.lenbyte[1])>>)
    ELSE IF atyp = IPV6
    THEN IF Len(r.addr) # 16 THEN NoAddress(<<Recv(16)>>)
         ELSE ParsePort(r, inet_ntop6(r.addr), <<Recv(16)>>)
    ELSE ParsePort(r, inet_ntoa(Addr4), <<>>)

parse_address(r, atyp) ==
    IF atyp = IPV4
    THEN IF Len(r.addr) # 4 THEN NoAddress(<<Recv(4)>>)
         ELSE ParsePort(r, inet_ntoa(r.addr), <<Recv(4)>>)
    ELSE IF atyp = DOMAIN_NAME
    THEN IF r.lenbyte = <<>> THEN NoAddress(<<Recv(1)>>)   \* [0]: IndexError
         ELSE IF Len(r.addr) # r.lenbyte[1]
         THEN NoAddress(<<Recv(1), Recv(r.lenbyte[1])>>)
         ELSE IF ~decode_ok(r.addr)
         THEN NoAddress(<<Recv(1), Recv(r.lenbyte[1])>>)
         ELSE ParsePort(r, r.addr, <<Recv(1), Recv(r.lenbyte[1])>>)
    ELSE IF atyp = IPV6
    THEN IF Len(r.addr) # 16 THEN NoAddress(<<Recv(16)>>)
         ELSE ParsePort(r, inet_ntop6(r.addr), <<Recv(16)>>)
    ELSE NoAddress(<<>>)

\* "if not dest_addr": None and the empty string
NotAddr(pa) == ~pa.some \/ pa.addr = <<>>

(***************************************************************************)
(* _handle_client and the two stages it calls, one session each.           *)
(***************************************************************************)
\* bandwidth_throttler = BandwidthThrottler(self.bandwidth_config)
HandlerBegin(s) ==
    /\ hpc[s] = "start"
    /\ throttler' = [throttler EXCEPT ![s] = NewThrottler(now)]
    /\ hpc' = [hpc EXCEPT ![s] = "auth"]
    /\ UNCHANGED <<config, ret, auxVars, accept_error,
                   now, serverVars, csock, tsock, log, greet, req,
                   dial, relayVars>>

\* auth_negotiation looking at the first offered method only.
auth_negotiation_first_method(g) ==
    IF Len(g.head) # 2 THEN [ok |-> FALSE, calls |-> <<Recv(2)>>]
    ELSE IF g.head[1] # SOCKS_VERSION THEN [ok |-> FALSE, calls |-> <<Recv(2)>>]
    ELSE IF Len(g.methods) # g.head[2]
    THEN [ok |-> FALSE, calls |-> <<Recv(2), Recv(g.head[2])>>]
    ELSE IF Len(g.methods) >= 1 /\ g.methods[1] = NO_AUTH
    THEN [ok |-> TRUE,
          calls |-> <<Recv(2), Recv(g.head[2]), SendMsg(MethodReply(NO_AUTH))>>]
    ELSE [ok |-> FALSE,
          calls |-> <<Recv(2), Recv(g.head[2]),
                      SendMsg(MethodReply(NO_ACCEPTABLE_METHODS))>>]

\* _handle_auth_negotiation on the greeting g: what it returns and the calls
\* it makes on the client socket.
auth_negotiation(g) ==
    IF Len(g.head) # 2 THEN [ok |-> FALSE, calls |-> <<Recv(2)>>]
    ELSE IF g.head[1] # SOCKS_VERSION THEN [ok |-> FALSE, calls |-> <<Recv(2)>>]
    ELSE IF Len(g.methods) # g.head[2]
    THEN [ok |-> FALSE, calls |-> <<Recv(2), Recv(g.head[2])>>]
    ELSE IF \E i \in 1..Len(g.methods) : g.methods[i] = NO_AUTH
    THEN [ok |-> TRUE,
          calls |-> <<Recv(2), Recv(g.head[2]), SendMsg(MethodReply(NO_AUTH))>>]
    ELSE [ok |-> FALSE,
          calls |-> <<Recv(2), Recv(g.head[2]),
                      SendMsg(MethodReply(NO_ACCEPTABLE_METHODS))>>]

HandleAuthNegotiation(s, g) ==
    /\ hpc[s] = "auth"
    /\ greet' = [greet EXCEPT ![s] = g]
    /\ log' = [log EXCEPT ![s] = @ \o auth_negotiation(g).calls]
    /\ hpc' = [hpc EXCEPT ![s] =
                  IF auth_negotiation(g).ok THEN "request" ELSE "finally"]
    /\ UNCHANGED <<config, ret, auxVars, accept_error,
                   now, serverVars, csock, tsock, req, dial, throttler,
                   relayVars>>

\* connection_request answering a wrong version with a GENERAL_FAILURE reply.
connection_request_version_reply(r) ==
    IF Len(r.head) # 4 THEN [dial |-> FALSE, calls |-> <<Recv(4)>>]
    ELSE IF r.head[1] # SOCKS_VERSION
    THEN [dial |-> FALSE, calls |-> <<Recv(4), SendMsg(ErrorReply(1))>>]
    ELSE IF r.head[2] # CONNECT
    THEN [dial |-> FALSE,
          calls |-> <<Recv(4), SendMsg(ErrorReply(COMMAND_NOT_SUPPORTED))>>]
    ELSE IF NotAddr(parse_address(r, r.head[4]))
    THEN [dial |-> FALSE,
          calls |-> <<Recv(4)>> \o parse_address(r, r.head[4]).calls
                        \o <<SendMsg(ErrorReply(ADDRESS_TYPE_NOT_SUPPORTED))>>]
    ELSE [dial |-> TRUE,
          calls |-> <<Recv(4)>> \o parse_address(r, r.head[4]).calls]

\* connection_request parsing the address before it looks at the command.
connection_request_parse_first(r) ==
    IF Len(r.head) # 4 THEN [dial |-> FALSE, calls |-> <<Recv(4)>>]
    ELSE IF r.head[1] # SOCKS_VERSION THEN [dial |-> FALSE, calls |-> <<Recv(4)>>]
    ELSE IF NotAddr(parse_address(r, r.head[4]))
    THEN [dial |-> FALSE,
          calls |-> <<Recv(4)>> \o parse_address(r, r.head[4]).calls
                        \o <<SendMsg(ErrorReply(ADDRESS_TYPE_NOT_SUPPORTED))>>]
    ELSE IF r.head[2] # CONNECT
    THEN [dial |-> FALSE,
          calls |-> <<Recv(4)>> \o parse_address(r, r.head[4]).calls
                        \o <<SendMsg(ErrorReply(COMMAND_NOT_SUPPORTED))>>]
    ELSE [dial |-> TRUE,
          calls |-> <<Recv(4)>> \o parse_address(r, r.head[4]).calls]

\* _handle_connection_request up to the creation of target_socket, on the
\* request r: whether it goes on to dial, and the calls it makes on the
\* client socket.
connection_request(r) ==
    IF Len(r.head) # 4 THEN [dial |-> FALSE, calls |-> <<Recv(4)>>]
    ELSE IF r.head[1] # SOCKS_VERSION THEN [dial |-> FALSE, calls |-> <<Recv(4)>>]
    ELSE IF r.head[2] # CONNECT
    THEN [dial |-> FALSE,
          calls |-> <<Recv(4), SendMsg(ErrorReply(COMMAND_NOT_SUPPORTED))>>]
    ELSE IF NotAddr(parse_address(r, r.head[4]))
    THEN [dial |-> FALSE,
          calls |-> <<Recv(4)>> \o parse_address(r, r.head[4]).calls
                        \o <<SendMsg(ErrorReply(ADDRESS_TYPE_NOT_SUPPORTED))>>]
    ELSE [dial |-> TRUE,
          calls |-> <<Recv(4)>> \o parse_address(r, r.head[4]).calls]

\* The destination the request of session s was parsed to.
Dest(s) == parse_address(req[s], req[s].head[4])

HandleConnectionRequest(s, r) ==
    /\ hpc[s] = "request"
    /\ req' = [req EXCEPT ![s] = r]
    /\ log' = [log EXCEPT ![s] = @ \o connection_request(r).calls]
    /\ IF connection_request(r).dial
       THEN /\ tsock' = [tsock EXCEPT ![s] = "open"]   \* socket.socket(...)
            /\ hpc' = [hpc EXCEPT ![s] = "dial"]
       ELSE /\ hpc' = [hpc EXCEPT ![s] = "finally"]
            /\ UNCHANGED tsock
    /\ UNCHANGED <<config, ret, auxVars, accept_error,
                   now, serverVars, csock, greet, dial, throttler,
                   relayVars>>

\* target_socket.getsockname() once connect has bound the socket: the local
\* address of the outbound connection and the ephemeral port the kernel chose.
LocalPort == 40000
getsockname == [addr |-> Addr4, port |-> LocalPort]

\* after_connect handing the socket back after "except socket.error" too.
after_connect_return_socket(o, dest) ==
    IF o = "ok"
    THEN [calls |-> SuccessReplies(dest.addr, dest.port), relay |-> TRUE,
          close |-> FALSE]
    ELSE IF o = "socket_error"
    THEN [calls |-> <<SendMsg(ErrorReply(CONNECTION_REFUSED))>>,
          relay |-> TRUE, close |-> TRUE]
    ELSE [calls |-> <<>>, relay |-> FALSE, close |-> FALSE]

\* What follows target_socket.connect(...) ending as o: the success reply
\* and the return of the socket; or "except socket.error" (the reply, the
\* close); or the outer "except Exception", which returns None.
after_connect(o, dest) ==
    IF o = "ok"
    THEN [calls |-> SuccessReplies(dest.addr, dest.port), relay |-> TRUE,
          close |-> FALSE]
    ELSE IF o = "socket_error"
    THEN [calls |-> <<SendMsg(ErrorReply(CONNECTION_REFUSED))>>,
          relay |-> FALSE, close |-> TRUE]
    ELSE [calls |-> <<>>, relay |-> FALSE, close |-> FALSE]

Connect(s, o) ==
    /\ hpc[s] = "dial"
    /\ o \in ConnectOutcomes(Dest(s).addr)
    /\ dial' = [dial EXCEPT ![s] = o]
    /\ log' = [log EXCEPT ![s] =
                  @ \o <<ConnectCall>> \o after_connect(o, Dest(s)).calls]
    /\ tsock' = [tsock EXCEPT ![s] =
                    IF after_connect(o, Dest(s)).close THEN "closed" ELSE @]
    /\ hpc' = [hpc EXCEPT ![s] =
                  IF after_connect(o, Dest(s)).relay THEN "relay" ELSE "finally"]
    /\ UNCHANGED <<config, ret, auxVars, accept_error,
                   now, serverVars, csock, greet, req, throttler,
                   relayVars>>

\* _relay_data: both threads are started; each begins in source.recv(4096).
RelayStart(s) ==
    /\ hpc[s] = "relay"
    /\ rpc' = [rpc EXCEPT ![s] = [d \in Directions |-> "in_recv"]]
    /\ hpc' = [hpc EXCEPT ![s] = "join"]
    /\ UNCHANGED <<config, ret, auxVars, accept_error,
                   now, serverVars, csock, tsock, log, greet, req,
                   dial, throttler, chunk, tmp, wake, relayed, chunks,
                   winBytes, total_bytes_transferred>>

\* client_to_target.join(); target_to_client.join()
RelayJoin(s) ==
    /\ hpc[s] = "join"
    /\ \A d \in Directions : rpc[s][d] = "done"
    /\ hpc' = [hpc EXCEPT ![s] = "finally"]
    /\ UNCHANGED <<config, ret, auxVars, accept_error,
                   now, serverVars, csock, tsock, log, greet, req,
                   dial, throttler, relayVars>>

\* HandlerFinally taking the server down with the session.
HandlerFinally_stops_server(s) ==
    /\ hpc[s] = "finally"
    /\ csock' = [csock EXCEPT ![s] = "closed"]
    /\ hpc' = [hpc EXCEPT ![s] = "done"]
    /\ running' = FALSE
    /\ UNCHANGED <<config, ret, auxVars, accept_error,
                   now, server_socket, client_count, startPc,
                   startOutcome, bindFailed, stopPc, stopCalls,
                   stopWhileListening, tsock, log, greet, req, dial,
                   throttler, relayVars>>

\* finally: client_socket.close()
HandlerFinally(s) ==
    /\ hpc[s] = "finally"
    /\ csock' = [csock EXCEPT ![s] = "closed"]
    /\ hpc' = [hpc EXCEPT ![s] = "done"]
    /\ UNCHANGED <<config, ret, auxVars, accept_error,
                   now, serverVars, tsock, log, greet, req, dial,
                   throttler, relayVars>>

(***************************************************************************)
(* forward_data(source, destination, direction), one thread per direction. *)
(***************************************************************************)
Source(s, d) == IF d = "c2t" THEN csock[s] ELSE tsock[s]
Destination(s, d) == IF d = "c2t" THEN tsock[s] ELSE csock[s]

\* The window of the throttler holds time t.
InWindow(th, t) == th.last_reset <= t /\ t < th.last_reset + config.reset_interval

\* The bytes of one direction of a relay: recv has returned the bytes
\* numbered 1..read, and send has accepted those listed in written.
NoBytes == [read |-> 0, written |-> <<>>]

\* recv returns the next n bytes of the source.
Taken(st, n) == [st EXCEPT !.read = @ + n]

\* send accepts the first k bytes of the chunk of n bytes read last.
Written(st, n, k) ==
    [st EXCEPT !.written = @ \o [i \in 1..k |-> st.read - n + i]]

\* RecvData with the throttling applied to both directions.
RecvData_throttles_both(s, d, n) ==
    /\ rpc[s][d] = "in_recv"
    /\ chunks' = chunks + 1
    /\ chunk' = [chunk EXCEPT ![s][d] = n]
    /\ throttler' = [throttler EXCEPT ![s] = AfterExpiryCheck(@, now)]
    /\ winBytes' = [winBytes EXCEPT ![s] =
                       IF throttler'[s] = throttler[s] THEN @ ELSE 0]
    /\ wake' = [wake EXCEPT ![s] = now + get_delay(throttler[s], n, now)]
    /\ rpc' = [rpc EXCEPT ![s][d] =
                  IF get_delay(throttler[s], n, now) > 0
                  THEN "sleep" ELSE "record"]
    /\ stream' = [stream EXCEPT ![s][d] = Taken(@, n)]
    /\ silent' = IF d = "t2c" THEN [silent EXCEPT ![s] = 0] ELSE silent
    /\ UNCHANGED <<config, ret, lockVars, timed_out, accept_error,
                   now, serverVars, handlerVars, tmp, relayed,
                   total_bytes_transferred>>

\* data = source.recv(4096) returns n bytes.  In the client->target direction
\* bandwidth_throttler.get_delay(len(data)) follows.
RecvData(s, d, n) ==
    /\ rpc[s][d] = "in_recv"
    /\ chunks' = chunks + 1
    /\ chunk' = [chunk EXCEPT ![s][d] = n]
    /\ IF d = "c2t"
       THEN /\ throttler' = [throttler EXCEPT ![s] = AfterExpiryCheck(@, now)]
            /\ winBytes' = [winBytes EXCEPT ![s] =
                               IF throttler'[s] = throttler[s] THEN @ ELSE 0]
            /\ wake' = [wake EXCEPT ![s] = now + get_delay(throttler[s], n, now)]
            /\ rpc' = [rpc EXCEPT ![s][d] =
                          IF get_delay(throttler[s], n, now) > 0
                          THEN "sleep" ELSE "record"]
       ELSE /\ rpc' = [rpc EXCEPT ![s][d] = "send"]
            /\ UNCHANGED <<throttler, winBytes, wake>>
    /\ stream' = [stream EXCEPT ![s][d] = Taken(@, n)]
    /\ silent' = IF d = "t2c" THEN [silent EXCEPT ![s] = 0] ELSE silent
    /\ UNCHANGED <<config, ret, lockVars, timed_out, accept_error,
                   now, serverVars, handlerVars, tmp, relayed,
                   total_bytes_transferred>>

\* recv returns b'' (break) or raises (except Exception): on to the finally.
RecvEnd(s, d) ==
    /\ rpc[s][d] = "in_recv"
    /\ rpc' = [rpc EXCEPT ![s][d] = "closing"]
    /\ UNCHANGED <<config, ret, auxVars, accept_error,
                   now, serverVars, handlerVars, throttler, chunk, tmp,
                   wake, relayed, chunks, winBytes, total_bytes_transferred>>

\* time.sleep(delay) returns, no earlier than delay after it was called.
Wake(s) ==
    /\ rpc[s]["c2t"] = "sleep"
    /\ now >= wake[s]
    /\ rpc' = [rpc EXCEPT ![s]["c2t"] = "record"]
    /\ UNCHANGED <<config, ret, auxVars, accept_error,
                   now, serverVars, handlerVars, throttler, chunk, tmp,
                   wake, relayed, chunks, winBytes, total_bytes_transferred>>

\* RecordSent on one BandwidthThrottler that all the sessions share.
RecordSent_shared(s) ==
    /\ rpc[s]["c2t"] = "record"
    /\ throttler' = [t \in Sessions |->
                         record_sent(throttler[t], chunk[s]["c2t"])]
    /\ rpc' = [rpc EXCEPT ![s]["c2t"] = "send"]
    /\ UNCHANGED <<config, ret, auxVars, accept_error,
                   now, serverVars, handlerVars, chunk, tmp, wake,
                   relayed, chunks, winBytes, total_bytes_transferred>>

\* bandwidth_throttler.record_sent(len(data))
RecordSent(s) ==
    /\ rpc[s]["c2t"] = "record"
    /\ throttler' = [throttler EXCEPT ![s] = record_sent(@, chunk[s]["c2t"])]
    /\ rpc' = [rpc EXCEPT ![s]["c2t"] = "send"]
    /\ UNCHANGED <<config, ret, auxVars, accept_error,
                   now, serverVars, handlerVars, chunk, tmp, wake,
                   relayed, chunks, winBytes, total_bytes_transferred>>

\* destination.send(data): it raises on a socket the other thread closed, and
\* it may raise on an open one (the peer reset the connection).
Send(s, d, ok) ==
    /\ rpc[s][d] = "send"
    /\ IF ok /\ Destination(s, d) = "open"
       THEN /\ relayed' = [relayed EXCEPT ![s][d] = @ + chunk[s][d]]
            /\ winBytes' = [winBytes EXCEPT ![s] =
                               IF d = "c2t" /\ InWindow(throttler[s], now)
                               THEN @ + chunk[s][d] ELSE @]
            /\ stream' = [stream EXCEPT ![s][d] =
                             Written(@, chunk[s][d], chunk[s][d])]
            /\ rpc' = [rpc EXCEPT ![s][d] = "count"]
       ELSE /\ rpc' = [rpc EXCEPT ![s][d] = "closing"]
            /\ UNCHANGED <<relayed, winBytes, stream>>
    /\ UNCHANGED <<config, ret, lockVars, silent, timed_out, accept_error,
                   now, serverVars, handlerVars, throttler, chunk, tmp,
                   wake, chunks, total_bytes_transferred>>

\* destination.send(data) accepts k bytes, fewer than the chunk holds, and
\* returns k.  The value is not looked at: the loop goes on to the count
\* and to the next recv, and the rest of the chunk is sent by no one.
SendPart(s, d, k) ==
    /\ rpc[s][d] = "send"
    /\ Destination(s, d) = "open"
    /\ k \in 1..(chunk[s][d] - 1)
    /\ relayed' = [relayed EXCEPT ![s][d] = @ + k]
    /\ winBytes' = [winBytes EXCEPT ![s] =
                       IF d = "c2t" /\ InWindow(throttler[s], now)
                       THEN @ + k ELSE @]
    /\ stream' = [stream EXCEPT ![s][d] = Written(@, chunk[s][d], k)]
    /\ rpc' = [rpc EXCEPT ![s][d] = "count"]
    /\ UNCHANGED <<config, ret, lockVars, silent, timed_out, accept_error,
                   now, serverVars, handlerVars, throttler, chunk, tmp,
                   wake, chunks, total_bytes_transferred>>

\* self.total_bytes_transferred += len(data), the read of the attribute
CountRead(s, d) ==
    /\ rpc[s][d] = "count"
    /\ tmp' = [tmp EXCEPT ![s][d] = total_bytes_transferred]
    /\ rpc' = [rpc EXCEPT ![s][d] = "store"]
    /\ UNCHANGED <<config, ret, auxVars, accept_error,
                   now, serverVars, handlerVars, throttler, chunk,
                   wake, relayed, chunks, winBytes, total_bytes_transferred>>

\* ... and the write of the sum; then the next source.recv(4096) is called,
\* which raises at once on a socket the other thread closed.
CountStore(s, d) ==
    /\ rpc[s][d] = "store"
    /\ total_bytes_transferred' = tmp[s][d] + chunk[s][d]
    /\ tmp' = [tmp EXCEPT ![s][d] = 0]
    /\ chunk' = [chunk EXCEPT ![s][d] = 0]
    /\ rpc' = [rpc EXCEPT ![s][d] =
                  IF Source(s, d) = "open" THEN "in_recv" ELSE "closing"]
    /\ UNCHANGED <<config, ret, auxVars, accept_error,
                   now, serverVars, handlerVars, throttler, wake,
                   relayed, chunks, winBytes>>

\* finally: source.close(); destination.close().  The other thread, if it is
\* blocked in recv on one of them, gets an error (woken) or stays blocked, as
\* the platform decides.
ForwardClose(s, d, woken) ==
    /\ rpc[s][d] = "closing"
    /\ csock' = [csock EXCEPT ![s] = "closed"]
    /\ tsock' = [tsock EXCEPT ![s] = "closed"]
    /\ rpc' = [rpc EXCEPT ![s][d] = "done",
                          ![s][Other(d)] =
                              IF @ = "in_recv" /\ Source(s, Other(d)) = "open"
                                  /\ woken
                              THEN "closing" ELSE @]
    /\ chunk' = [chunk EXCEPT ![s][d] = 0]
    /\ UNCHANGED <<config, ret, auxVars, accept_error,
                   now, serverVars, hpc, log, greet, req, dial,
                   throttler, tmp, wake, relayed, chunks, winBytes,
                   total_bytes_transferred>>

\* The clock advances.
Tick ==
    /\ now < MaxTime
    /\ now' = now + 1
    /\ UNCHANGED <<config, ret, auxVars, accept_error,
                   serverVars, handlerVars, throttler, relayVars>>

\* The recv of session s's target->client thread is waiting on a connected
\* socket.
WaitsForTarget(s) == rpc[s]["t2c"] = "in_recv" /\ tsock[s] = "open"

\* The clock advances by one unit in which no destination sends anything:
\* the recv calls that wait for a destination have waited one unit longer.
Silence ==
    /\ now < MaxTime
    /\ now' = now + 1
    /\ silent' = [s \in Sessions |->
                     IF WaitsForTarget(s) THEN silent[s] + 1 ELSE silent[s]]
    /\ UNCHANGED <<config, ret, lockVars, timed_out, stream, accept_error,
                   serverVars, handlerVars, throttler, relayVars>>

\* target_socket keeps the timeout of settimeout(10), set for the dial and
\* never cleared: source.recv(4096) on it raises socket.timeout once no data
\* has come for that long, "except Exception" takes it, on to the finally.
RecvTimeout(s) ==
    /\ WaitsForTarget(s)
    /\ silent[s] >= TARGET_TIMEOUT \div SecondsPerTick
    /\ timed_out' = [timed_out EXCEPT ![s] = TRUE]
    /\ rpc' = [rpc EXCEPT ![s]["t2c"] = "closing"]
    /\ UNCHANGED <<config, ret, lockVars, silent, stream, accept_error,
                   now, serverVars, handlerVars, throttler, chunk, tmp,
                   wake, relayed, chunks, winBytes, total_bytes_transferred>>

(***************************************************************************)
(* The server: start(), stop() from outside, and the sessions of the       *)
(* connections accepted, under the default BandwidthConfig (unlimited).    *)
(***************************************************************************)
\* The state with the server at serverState and the first k connections
\* accepted and handed to their handler threads.
InitProgram(c, k, serverState) ==
    /\ config = c
    /\ now = 0
    /\ running = serverState.running
    /\ server_socket = serverState.server_socket
    /\ startPc = serverState.startPc
    /\ client_count = k
    /\ total_bytes_transferred = 0
    /\ startOutcome = "none"
    /\ bindFailed = FALSE
    /\ stopPc = "idle"
    /\ stopCalls = 0
    /\ stopWhileListening = FALSE
    /\ hpc = [s \in Sessions |-> IF s <= k THEN "start" ELSE "none"]
    /\ csock = [s \in Sessions |-> IF s <= k THEN "open" ELSE "none"]
    /\ tsock = [s \in Sessions |-> "none"]
    /\ log = [s \in Sessions |-> <<>>]
    /\ greet = [s \in Sessions |-> NoGreeting]
    /\ req = [s \in Sessions |-> NoRequest]
    /\ dial = [s \in Sessions |-> "none"]
    /\ throttler = [s \in Sessions |-> NewThrottler(0)]
    /\ rpc = [s \in Sessions |-> [d \in Directions |-> "none"]]
    /\ chunk = [s \in Sessions |-> [d \in Directions |-> 0]]
    /\ tmp = [s \in Sessions |-> [d \in Directions |-> 0]]
    /\ wake = [s \in Sessions |-> 0]
    /\ relayed = [s \in Sessions |-> [d \in Directions |-> 0]]
    /\ chunks = 0
    /\ winBytes = [s \in Sessions |-> 0]
    /\ ret = NoCall
    /\ accept_error = "none"
    /\ silent = [s \in Sessions |-> 0]
    /\ timed_out = [s \in Sessions |-> FALSE]
    /\ stream = [s \in Sessions |-> [d \in Directions |-> NoBytes]]

\* No thread inside a throttler method, ProxyConfig as its defaults give it.
InitWith(c, k, serverState) ==
    /\ InitProgram(c, k, serverState)
    /\ lock = 0
    /\ caller = [c1 \in Callers |-> NotCalling]
    /\ proxy_config = DefaultProxyConfig
    /\ validated = NotValidated

\* SOCKS5Server.__init__
Constructed == [running |-> FALSE, server_socket |-> "none", startPc |-> "idle"]

\* The server blocked in accept().
Listening == [running |-> TRUE, server_socket |-> "listening",
              startPc |-> "in_accept"]

Init == InitWith(BandwidthConfig(0, 0), 0, Constructed)

ServerStep ==
    \/ \E ok \in BOOLEAN : StartBind(ok)
    \/ StartSetRunning
    \/ StartLoop
    \/ AcceptReturn
    \/ Dispatch
    \/ AcceptRaise
    \/ AcceptExcept
    \/ StartFinally
    \/ StartReturn
    \/ StopSetRunning
    \/ \E woken \in BOOLEAN : StopClose(woken)

\* The steps of the relay threads of session s while the peers send at most
\* limit chunks.
RelayStep(s, limit) ==
    \/ \E d \in Directions, n \in 1..RecvSize :
          chunks < limit /\ RecvData(s, d, n)
    \/ \E d \in Directions : RecvEnd(s, d)
    \/ RecordSent(s)
    \/ \E d \in Directions, ok \in BOOLEAN : Send(s, d, ok)
    \/ \E d \in Directions : CountRead(s, d)
    \/ \E d \in Directions : CountStore(s, d)
    \/ \E d \in Directions, woken \in BOOLEAN : ForwardClose(s, d, woken)

\* The steps of the handler of session s up to the call of _relay_data, and
\* its finally, on greetings gs and requests rs.
HandshakeStep(s, gs, rs) ==
    \/ HandlerBegin(s)
    \/ \E g \in gs : HandleAuthNegotiation(s, g)
    \/ \E r \in rs : HandleConnectionRequest(s, r)
    \/ \E o \in {"ok", "socket_error", "other_error"} : Connect(s, o)
    \/ HandlerFinally(s)

\* The steps of the handler of session s on greetings gs and requests rs.
HandlerStep(s, gs, rs) ==
    \/ HandshakeStep(s, gs, rs)
    \/ RelayStart(s)
    \/ RelayJoin(s)

Next ==
    \/ ServerStep
    \/ \E s \in Sessions : HandlerStep(s, FewGreetings, FewRequests)
    \/ \E s \in Sessions : RelayStep(s, ServerChunks)

Spec == Init /\ [][Next]_vars

(***************************************************************************)
(* The accept loop: start(), stop() from outside, and the handshakes of the *)
(* connections accepted.  A session whose dial succeeded stays in its       *)
(* relay, which touches none of the server's fields but                     *)
(* total_bytes_transferred.                                                 *)
(***************************************************************************)
NextAccept ==
    \/ ServerStep
    \/ \E s \in Sessions : HandshakeStep(s, FewGreetings, FewRequests)

SpecAccept == Init /\ [][NextAccept]_vars

(***************************************************************************)
(* The server left alone: start() and the sessions of the connections it   *)
(* accepts, some of them with a greeting of the wrong version, an           *)
(* unsupported command, a failing dial or a failing relay; nobody calls    *)
(* stop().                                                                  *)
(***************************************************************************)
ListenStep ==
    \/ \E ok \in BOOLEAN : StartBind(ok)
    \/ StartSetRunning
    \/ StartLoop
    \/ AcceptReturn
    \/ Dispatch
    \/ AcceptRaise
    \/ AcceptExcept
    \/ StartFinally
    \/ StartReturn

ErrGreetings == FewGreetings \cup {Greeting(<<4, 1>>, <<NO_AUTH>>)}

\* The relay of a session whose client sends one byte at a time and whose
\* destination is silent; the write to the destination may fail.
ServeRelayStep(s) ==
    \/ chunks < ServerChunks /\ RecvData(s, "c2t", 1)
    \/ RecvEnd(s, "c2t")
    \/ RecordSent(s)
    \/ \E ok \in BOOLEAN : Send(s, "c2t", ok)
    \/ CountRead(s, "c2t")
    \/ CountStore(s, "c2t")
    \/ \E d \in Directions, woken \in BOOLEAN : ForwardClose(s, d, woken)

NextServe ==
    \/ ListenStep
    \/ \E s \in Sessions : HandlerStep(s, ErrGreetings, FewRequests)
    \/ \E s \in Sessions : ServeRelayStep(s)

SpecServe == Init /\ [][NextServe]_vars

(***************************************************************************)
(* Shutdown with one session in flight: the server has accepted one        *)
(* connection, no other client connects, and stop() is called from outside *)
(* at any moment of the session.                                           *)
(***************************************************************************)
ShutdownStep ==
    \/ StopSetRunning
    \/ \E woken \in BOOLEAN : StopClose(woken)
    \/ StartLoop
    \/ AcceptRaise
    \/ AcceptExcept
    \/ StartFinally
    \/ StartReturn

NextShutdown ==
    \/ ShutdownStep
    \/ HandlerStep(1, FewGreetings, FewRequests)
    \/ RelayStep(1, MaxChunks)

InitShutdown == InitWith(BandwidthConfig(0, 0), 1, Listening)

SpecShutdown == InitShutdown /\ [][NextShutdown]_vars

(***************************************************************************)
(* One session.  The server has accepted one connection, has handed it to  *)
(* its handler thread and is blocked in accept() again; the client sends   *)
(* any greeting and any request of the model.                              *)
(***************************************************************************)
InitSession == InitWith(BandwidthConfig(0, 0), 1, Listening)

NextSession1 ==
    \/ HandlerStep(1, Greetings, Requests)
    \/ RelayStep(1, MaxChunks)

SpecSession == InitSession /\ [][NextSession1]_vars

\* The steps session s takes by itself once it can: everything but the
\* returns of recv and of connect, which wait for the peer.  The threads are
\* scheduled by the operating system, so none of them is held back forever.
ThreadStep(s) ==
    \/ HandlerBegin(s)
    \/ RelayStart(s)
    \/ RelayJoin(s)
    \/ HandlerFinally(s)
    \/ RecordSent(s)
    \/ \E d \in Directions, ok \in BOOLEAN : Send(s, d, ok)
    \/ \E d \in Directions : CountRead(s, d)
    \/ \E d \in Directions : CountStore(s, d)
    \/ \E d \in Directions, woken \in BOOLEAN : ForwardClose(s, d, woken)

SpecSessionFair == SpecSession /\ WF_vars(ThreadStep(1))

(***************************************************************************)
(* One session under each BandwidthConfig of the model, with the clock:    *)
(* the throttler at work in the relay.                                     *)
(***************************************************************************)
InitThrottle ==
    \E m \in 0..MaxRate, b \in 0..MaxBurst :
        InitWith(BandwidthConfig(m, b), 1, Listening)

NextThrottle ==
    \/ HandlerStep(1, FewGreetings, FewRequests)
    \/ RelayStep(1, MaxChunks)
    \/ Wake(1)
    \/ Tick

SpecThrottle == InitThrottle /\ [][NextThrottle]_vars

\* The same session with throttling disabled, whatever the burst size.
InitUnlimited ==
    \E b \in 0..MaxBurst : InitWith(BandwidthConfig(0, b), 1, Listening)

\* time.sleep is never called, so no sleep returns.
NextUnlimited ==
    \/ HandlerStep(1, FewGreetings, FewRequests)
    \/ RelayStep(1, MaxChunks)
    \/ Tick

SpecUnlimited == InitUnlimited /\ [][NextUnlimited]_vars

(***************************************************************************)
(* One session under max_bytes_per_second = 1000, burst_size = 0,          *)
(* reset_interval = 1.0, in units of 500 bytes and of a quarter second:    *)
(* the client sends chunks of 1500 bytes, the handshake and the dial take  *)
(* whatever time they take.                                                *)
(***************************************************************************)
ScenarioConfig == BandwidthConfig(2, 0)
ScenarioChunk == 3

InitScenario == InitWith(ScenarioConfig, 1, Listening)

NextScenario ==
    \/ HandlerStep(1, FewGreetings, FewRequests)
    \/ \E d \in Directions : chunks < MaxChunks /\ RecvData(1, d, ScenarioChunk)
    \/ \E d \in Directions : RecvEnd(1, d)
    \/ RecordSent(1)
    \/ \E d \in Directions, ok \in BOOLEAN : Send(1, d, ok)
    \/ \E d \in Directions : CountRead(1, d)
    \/ \E d \in Directions : CountStore(1, d)
    \/ \E d \in Directions, woken \in BOOLEAN : ForwardClose(1, d, woken)
    \/ Wake(1)
    \/ Tick

SpecScenario == InitScenario /\ [][NextScenario]_vars

(***************************************************************************)
(* Two sessions at once under a limit of one byte per window, with the     *)
(* clock: the server has accepted two connections and has handed each to   *)
(* its handler thread.                                                     *)
(***************************************************************************)
InitPair == InitWith(BandwidthConfig(1, 0), 2, Listening)

\* The client of each session sends and closes; its destination is silent.
PairStep(s) ==
    \/ HandshakeStep(s, FewGreetings,
                     {Request(<<SOCKS_VERSION, CONNECT, 0, IPV4>>, <<>>,
                              Addr4, Port80)})
    \/ RelayStart(s)
    \/ \E n \in 1..RecvSize : chunks < MaxChunks /\ RecvData(s, "c2t", n)
    \/ RecvEnd(s, "c2t")
    \/ RecordSent(s)
    \/ Send(s, "c2t", TRUE)
    \/ CountRead(s, "c2t")
    \/ CountStore(s, "c2t")
    \/ \E woken \in BOOLEAN : ForwardClose(s, "c2t", woken)
    \/ Wake(s)

NextPair ==
    \/ \E s \in {1, 2} : PairStep(s)
    \/ Tick

SpecPair == InitPair /\ [][NextPair]_vars

(***************************************************************************)
(* One session whose client sends and whose sends to the destination may   *)
(* be accepted in part.  The destination sends nothing, so that            *)
(* total_bytes_transferred has one writer.                                 *)
(***************************************************************************)
NextWrite ==
    \/ HandlerStep(1, FewGreetings, FewRequests)
    \/ \E n \in 1..RecvSize : chunks < MaxChunks /\ RecvData(1, "c2t", n)
    \/ \E d \in Directions : RecvEnd(1, d)
    \/ RecordSent(1)
    \/ \E ok \in BOOLEAN : Send(1, "c2t", ok)
    \/ \E k \in 1..RecvSize : SendPart(1, "c2t", k)
    \/ CountRead(1, "c2t")
    \/ CountStore(1, "c2t")
    \/ \E d \in Directions, woken \in BOOLEAN : ForwardClose(1, d, woken)

SpecWrite == InitSession /\ [][NextWrite]_vars

(***************************************************************************)
(* One session whose destination is connected and sends nothing, while     *)
(* time passes.                                                            *)
(***************************************************************************)
IdleStep(s) ==
    \/ HandlerStep(s, FewGreetings, FewRequests)
    \/ \E n \in 1..RecvSize : chunks < MaxChunks /\ RecvData(s, "c2t", n)
    \/ \E d \in Directions : RecvEnd(s, d)
    \/ RecvTimeout(s)
    \/ RecordSent(s)
    \/ \E ok \in BOOLEAN : Send(s, "c2t", ok)
    \/ CountRead(s, "c2t")
    \/ CountStore(s, "c2t")
    \/ \E d \in Directions, woken \in BOOLEAN : ForwardClose(s, d, woken)

NextIdle ==
    \/ IdleStep(1)
    \/ Silence

SpecIdle == InitSession /\ [][NextIdle]_vars

(***************************************************************************)
(* One session relaying both ways under a limit of one byte per window,    *)
(* with the clock.                                                         *)
(***************************************************************************)
InitOrder == InitWith(BandwidthConfig(1, 0), 1, Listening)

SpecOrder == InitOrder /\ [][NextThrottle]_vars

(***************************************************************************)
(* The accept loop of a listening server under a limit of one byte per     *)
(* window, with the sessions it dispatches up to the throttling sleep of   *)
(* their first chunk of RecvSize bytes; the clock stands still, so a       *)
(* session that sleeps goes on sleeping.                                   *)
(***************************************************************************)
InitDispatch == InitWith(BandwidthConfig(1, 0), 0, Listening)

DispatchedStep(s) ==
    \/ HandshakeStep(s, ErrGreetings, FewRequests)
    \/ RelayStart(s)
    \/ RecvData(s, "c2t", 1 + config.max_bytes_per_second)

NextDispatch ==
    \/ StartLoop
    \/ AcceptReturn
    \/ Dispatch
    \/ \E s \in Sessions : DispatchedStep(s)

SpecDispatch == InitDispatch /\ [][NextDispatch]_vars

(***************************************************************************)
(* A BandwidthThrottler by itself, under each BandwidthConfig of the model: *)
(* its three methods called in any order with any argument while the clock *)
(* advances, as test_bandwidth_throttler calls them.                        *)
(***************************************************************************)
InitThrottler ==
    \E m \in 0..MaxRate, b \in 0..MaxBurst :
        InitWith(BandwidthConfig(m, b), 0, Constructed)

\* CallCanSend with can_send counting the bytes it allows.
CallCanSend_consumes(n) ==
    /\ ret' = Call("can_send", n, throttler[1], now,
                   can_send(throttler[1], n, now), 0)
    /\ throttler' = [throttler EXCEPT ![1] =
          IF can_send(throttler[1], n, now)
          THEN record_sent(AfterExpiryCheck(@, now), n)
          ELSE AfterExpiryCheck(@, now)]
    /\ UNCHANGED <<config, now, auxVars, accept_error, serverVars, handlerVars,
                   relayVars>>

CallCanSend(n) ==
    /\ ret' = Call("can_send", n, throttler[1], now,
                   can_send(throttler[1], n, now), 0)
    /\ throttler' = [throttler EXCEPT ![1] = AfterExpiryCheck(@, now)]
    /\ UNCHANGED <<config, now, auxVars, accept_error, serverVars, handlerVars,
                   relayVars>>

CallGetDelay(n) ==
    /\ ret' = Call("get_delay", n, throttler[1], now, TRUE,
                   get_delay(throttler[1], n, now))
    /\ throttler' = [throttler EXCEPT ![1] = AfterExpiryCheck(@, now)]
    /\ UNCHANGED <<config, now, auxVars, accept_error, serverVars, handlerVars,
                   relayVars>>

CallRecordSent(n) ==
    /\ throttler[1].bytes_sent + n <= MaxSent
    /\ ret' = Call("record_sent", n, throttler[1], now, TRUE, 0)
    /\ throttler' = [throttler EXCEPT ![1] = record_sent(@, n)]
    /\ UNCHANGED <<config, now, auxVars, accept_error, serverVars, handlerVars,
                   relayVars>>

NextThrottler ==
    \/ \E n \in 0..MaxBytes : CallCanSend(n)
    \/ \E n \in 0..MaxBytes : CallGetDelay(n)
    \/ \E n \in 1..MaxBytes : CallRecordSent(n)
    \/ Tick

SpecThrottler == InitThrottler /\ [][NextThrottler]_vars

(***************************************************************************)
(* One BandwidthThrottler whose methods several threads call at once, with *)
(* the clock.                                                              *)
(***************************************************************************)
RECURSIVE PendingBytes(_)
\* The bytes the record_sent calls in progress have still to add.
PendingBytes(c) ==
    IF c = 0 THEN 0
    ELSE PendingBytes(c - 1)
           + (IF caller[c].op = "record_sent"
                 /\ caller[c].pc \in {"acquire", "read", "write"}
              THEN caller[c].n ELSE 0)

LockStep(c) ==
    \/ \E op \in {"can_send", "get_delay"}, n \in 1..RecvSize :
          LockBegin(c, op, n)
    \/ \E n \in 1..RecvSize :
          /\ throttler[1].bytes_sent + PendingBytes(MaxCallers) + n <= MaxSent
          /\ LockBegin(c, "record_sent", n)
    \/ LockAcquire(c)
    \/ LockTime(c)
    \/ LockCheck(c)
    \/ LockResetBytes(c)
    \/ LockResetTime(c)
    \/ LockCompute(c)
    \/ LockRead(c)
    \/ LockWrite(c)
    \/ LockRelease(c)

NextLock ==
    \/ \E c \in Callers : LockStep(c)
    \/ Tick

\* Unlimited, or one byte per window with a burst allowance of one byte.
InitLock ==
    \E m \in {0, 1} : InitWith(BandwidthConfig(m, 1), 0, Constructed)

SpecLock == InitLock /\ [][NextLock]_vars

(***************************************************************************)
(* ProxyConfig as the environment made it, and its validation.             *)
(***************************************************************************)
InitConfig ==
    /\ InitProgram(BandwidthConfig(0, 0), 0, Constructed)
    /\ lock = 0
    /\ caller = [c \in Callers |-> NotCalling]
    /\ proxy_config \in ProxyConfigs
    /\ validated = NotValidated

NextConfig == ValidateConfig

SpecConfig == InitConfig /\ [][NextConfig]_vars

(***************************************************************************)
(* The claims.                                                             *)
(***************************************************************************)
\* Session s has run the stage that reads the greeting / the request.
GreetingRead(s) == hpc[s] \notin {"none", "start", "auth"}
RequestRead(s) == Len(log[s]) >= 4 /\ log[s][4] = Recv(4)
NoDial(s) ==
    /\ tsock[s] = "none"
    /\ dial[s] = "none"
    /\ \A i \in 1..Len(log[s]) : log[s][i].op # "connect"
Ended(s) == hpc[s] \in {"finally", "done"}
EndedClosed(s) == Ended(s) /\ (hpc[s] = "done" => csock[s] = "closed")
Offers(g, m) == \E i \in 1..Len(g.methods) : g.methods[i] = m
RelayOver(s) == \A d \in Directions : rpc[s][d] = "done"
IsSuccessReply(m) == Len(m) = 10 /\ m[1] = SOCKS_VERSION /\ m[2] = SUCCESS

\* C1 (rate ceiling): with max_bytes_per_second = M > 0 and burst_size = B,
\* the bytes written to the destination inside one throttling window never
\* exceed M + B.
C1_RateCeiling ==
    \A s \in Sessions :
        config.max_bytes_per_second > 0
            => winBytes[s] <= config.max_bytes_per_second + config.burst_size

\* C2: for every CONNECT whose dial succeeds, of any address type, a SUCCESS
\* reply has been sent to the client before the session is Established, and
\* no relayed destination byte reaches the client without one.
C2_SuccessReplyBeforeRelay ==
    \A s \in Sessions :
        (dial[s] = "ok" \/ hpc[s] \in {"relay", "join"}
             \/ relayed[s]["t2c"] > 0)
            => \E i \in 1..Len(Sent(s)) : IsSuccessReply(Sent(s)[i])

\* C3: once all relay threads have finished, total_bytes_transferred is the
\* sum of the lengths of the chunks written in either direction by every
\* session (no increment is lost).
RECURSIVE SumRelayed(_)
SumRelayed(S) ==
    IF S = {} THEN 0
    ELSE LET s == CHOOSE x \in S : TRUE
         IN  relayed[s]["c2t"] + relayed[s]["t2c"] + SumRelayed(S \ {s})

C3_NoLostIncrement ==
    (\A s \in Sessions : \A d \in Directions : rpc[s][d] \in {"none", "done"})
        => total_bytes_transferred = SumRelayed(Sessions)

\* C4: when _handle_client has returned, on every path, the client socket
\* and every destination socket the handler created are closed.
C4_SocketsClosedOnReturn ==
    \A s \in Sessions :
        hpc[s] = "done" => csock[s] = "closed" /\ tsock[s] \in {"none", "closed"}

\* C5: if stop() is called from another thread while the server is Listening
\* (accept loop blocked in accept), the listening socket is closed, the
\* accept loop exits and start() returns: once that stop() has returned,
\* start() has returned or its thread can take its next step without any
\* connection arriving.
StartThreadStep ==
    \/ StartSetRunning
    \/ StartLoop
    \/ Dispatch
    \/ AcceptExcept
    \/ StartFinally
    \/ StartReturn

C5_StopEndsStart ==
    (stopWhileListening /\ stopPc = "idle")
        => /\ server_socket = "closed"
           /\ startPc = "returned" \/ ENABLED StartThreadStep

\* C6: when bind or listen fails in start(), the failure reaches the caller
\* of start() as an error outcome, distinguishable from the return after
\* stop(); the server never enters Listening and client_count is unchanged.
C6_BindFailureSurfaced ==
    bindFailed
        => /\ ~running
           /\ client_count = 0
           /\ startPc = "returned" => startOutcome = "raised"

\* C7 (auth negotiation): for a greeting [0x05][NMETHODS][METHODS], if 0x00
\* is among the offered methods the server replies exactly [0x05, 0x00] and
\* moves on to the request; otherwise (NMETHODS = 0 included) it replies
\* exactly [0x05, 0xFF], reads no request, never dials and closes the client
\* connection.
C7_AuthNegotiation ==
    \A s \in Sessions :
        (/\ GreetingRead(s)
         /\ Len(greet[s].head) = 2
         /\ greet[s].head[1] = 5
         /\ Len(greet[s].methods) = greet[s].head[2])
            => IF Offers(greet[s], 0)
               THEN /\ SubSeq(log[s], 1, 3)
                          = <<Recv(2), Recv(greet[s].head[2]), SendMsg(<<5, 0>>)>>
                    /\ hpc[s] = "request" \/ RequestRead(s)
               ELSE /\ log[s] = <<Recv(2), Recv(greet[s].head[2]),
                                  SendMsg(<<5, 255>>)>>
                    /\ NoDial(s)
                    /\ EndedClosed(s)

C7_Witness ==
    \E s \in Sessions :
        /\ greet[s] = Greeting(<<5, 2>>, <<2, 0>>)
        /\ hpc[s] = "request"
        /\ Sent(s) = << <<5, 0>> >>

\* C8: a version byte other than 0x05, in the greeting or in the request,
\* ends the session with no bytes sent in reply to that message, no dial
\* attempted and the client connection closed.
C8_BadVersionNoReply ==
    \A s \in Sessions :
        /\ (GreetingRead(s) /\ greet[s].head # <<>> /\ greet[s].head[1] # 5)
               => /\ Sent(s) = <<>>
                  /\ NoDial(s)
                  /\ EndedClosed(s)
        /\ (RequestRead(s) /\ req[s].head # <<>> /\ req[s].head[1] # 5)
               => /\ Sent(s) = << <<5, 0>> >>
                  /\ Len(log[s]) = 4
                  /\ NoDial(s)
                  /\ EndedClosed(s)

C8_Witness ==
    \E s \in Sessions :
        /\ RequestRead(s)
        /\ req[s].head = <<4, 1, 0, 1>>
        /\ hpc[s] = "done"
        /\ csock[s] = "closed"

\* C9: a version-5 request whose CMD is not 0x01 gets exactly one reply, with
\* REP = 0x07, whatever its ATYP and without address bytes being read; no
\* destination socket is created and the session terminates.
C9_CommandNotSupported ==
    \A s \in Sessions :
        (/\ RequestRead(s)
         /\ Len(req[s].head) = 4
         /\ req[s].head[1] = 5
         /\ req[s].head[2] # 1)
            => /\ Len(Sent(s)) = 2
               /\ Sent(s)[2][2] = 7
               /\ ReadsIn(log[s]) = <<2, greet[s].head[2], 4>>
               /\ NoDial(s)
               /\ EndedClosed(s)

C9_Witness ==
    \E s \in Sessions :
        /\ RequestRead(s)
        /\ req[s] = Request(<<5, 3, 0, 4>>, <<>>, Loopback6, Port80)
        /\ hpc[s] = "done"

\* C10: a CONNECT request whose ATYP is none of 0x01, 0x03, 0x04 gets exactly
\* one reply, with REP = 0x08; no destination socket is created and the
\* session terminates.
C10_AddressTypeNotSupported ==
    \A s \in Sessions :
        (/\ RequestRead(s)
         /\ Len(req[s].head) = 4
         /\ req[s].head[1] = 5
         /\ req[s].head[2] = 1
         /\ req[s].head[4] \notin {1, 3, 4})
            => /\ Len(Sent(s)) = 2
               /\ Sent(s)[2][2] = 8
               /\ NoDial(s)
               /\ EndedClosed(s)

C10_Witness ==
    \E s \in Sessions :
        /\ RequestRead(s)
        /\ req[s].head = <<5, 1, 0, 2>>
        /\ Sent(s) = << <<5, 0>>, <<5, 8, 0, 1, 0, 0, 0, 0, 0, 0>> >>
        /\ hpc[s] = "done"

\* C11: every dial failure produces exactly one reply with REP = 0x05, after
\* which the destination socket and the client connection are closed and no
\* relay is started.
C11_DialFailureReply ==
    \A s \in Sessions :
        dial[s] \notin {"none", "ok"}
            => /\ Len(Sent(s)) = 2
               /\ Sent(s)[2][2] = 5
               /\ tsock[s] = "closed"
               /\ \A d \in Directions : rpc[s][d] = "none"
               /\ EndedClosed(s)

\* C12: BND.ADDR and BND.PORT of a SUCCESS reply are the local address and
\* port the proxy's outbound socket is bound to, not the destination of the
\* request.
C12_BoundAddressInReply ==
    \A s \in Sessions :
        \A i \in 1..Len(Sent(s)) :
            IsSuccessReply(Sent(s)[i])
                => /\ SubSeq(Sent(s)[i], 5, 8) = getsockname.addr
                   /\ SubSeq(Sent(s)[i], 9, 10) = pack_H(getsockname.port)

\* C13: the stages of a session occur strictly in the order AuthNegotiation,
\* RequestParsing, Dial, Relay: no request byte is read before the
\* method-selection reply was sent, no dial happens before the request is
\* fully parsed, no relay thread starts before the dial succeeded, and a
\* failed stage is never followed by a later stage.
MethodSelected(s) == Len(log[s]) >= 3 /\ log[s][3] = SendMsg(<<5, 0>>)
Dialled(s) == \E i \in 1..Len(log[s]) : log[s][i].op = "connect"
RelayStarted(s) == \E d \in Directions : rpc[s][d] # "none"
FullyParsed(r) ==
    /\ Len(r.head) = 4
    /\ r.head[1] = 5
    /\ r.head[2] = 1
    /\ Len(r.port) = 2
    /\ \/ r.head[4] = 1 /\ Len(r.addr) = 4
       \/ r.head[4] = 3 /\ r.lenbyte # <<>> /\ Len(r.addr) = r.lenbyte[1]
       \/ r.head[4] = 4 /\ Len(r.addr) = 16

C13_StageOrder ==
    \A s \in Sessions :
        /\ \A i \in 1..Len(log[s]) :
              /\ (log[s][i].op = "recv" /\ i > 2) => MethodSelected(s) /\ i > 3
              /\ log[s][i].op = "connect"
                    => /\ MethodSelected(s)
                       /\ FullyParsed(req[s])
                       /\ log[s][i - 1] = Recv(2)
        /\ RelayStarted(s) => dial[s] = "ok" /\ Dialled(s)
        /\ hpc[s] \in {"relay", "join"} => dial[s] = "ok"
        /\ (GreetingRead(s) /\ ~MethodSelected(s))
              => Len(log[s]) <= 3 /\ NoDial(s) /\ ~RelayStarted(s) /\ Ended(s)
        /\ (RequestRead(s) /\ ~FullyParsed(req[s]))
              => NoDial(s) /\ ~RelayStarted(s) /\ Ended(s)
        /\ dial[s] \notin {"none", "ok"} => ~RelayStarted(s) /\ Ended(s)

C13_Witness ==
    \E s \in Sessions :
        /\ MethodSelected(s)
        /\ FullyParsed(req[s])
        /\ Dialled(s)
        /\ dial[s] = "ok"
        /\ rpc[s]["c2t"] = "send"
        /\ rpc[s]["t2c"] = "in_recv"

\* C14 (relay termination): once one relay direction has seen EOF or an
\* error, both connections of the pair are closed, the other direction's
\* thread eventually terminates as a consequence of that close, and
\* _relay_data returns.
C14_RelayTerminates ==
    /\ [](\A s \in Sessions : \A d \in Directions :
              rpc[s][d] = "done" => csock[s] = "closed" /\ tsock[s] = "closed")
    /\ \A s \in Sessions :
          (\E d \in Directions : rpc[s][d] = "done")
              ~> (hpc[s] \in {"finally", "done"})

\* C15: client_count equals the number of connections accepted so far; it is
\* incremented by exactly one per successful accept, before the handler of
\* that connection is dispatched, whatever becomes of the session, and it
\* never decreases.
Accepted == {s \in Sessions : csock[s] # "none"}

C15_ClientCount ==
    /\ [](/\ client_count = Cardinality(Accepted)
          /\ \A s \in Sessions : hpc[s] # "none" => s \in Accepted)
    /\ [][/\ client_count' >= client_count
          /\ client_count' = client_count + 1 <=> Accepted' # Accepted]_vars

C15_Witness ==
    /\ client_count = 2
    /\ hpc[1] = "done"
    /\ dial[1] = "none"
    /\ hpc[2] = "none"
    /\ startPc = "dispatch"

\* C16: with max_bytes_per_second = 0, can_send(n) is true and get_delay(n)
\* is 0 for every n and every throttler state, so a relay with throttling
\* disabled never sleeps.
C16_UnlimitedNeverDelays ==
    config.max_bytes_per_second = 0
        => \A s \in Sessions :
              /\ \A n \in 0..MaxBytes :
                    /\ can_send(throttler[s], n, now)
                    /\ get_delay(throttler[s], n, now) = 0
              /\ rpc[s]["c2t"] # "sleep"
              /\ wake[s] <= now

C16_Witness ==
    /\ config.max_bytes_per_second = 0
    /\ throttler[1].bytes_sent = 2 * RecvSize
    /\ now - throttler[1].last_reset > config.reset_interval
    /\ relayed[1]["c2t"] = RecvSize
    /\ rpc[1]["c2t"] = "send"

\* The counter a call found, after the expiry check every can_send and
\* get_delay begins with.
CounterSeen(c) ==
    IF c.t - c.th.last_reset >= config.reset_interval THEN 0
    ELSE c.th.bytes_sent

\* C17: for M = max_bytes_per_second > 0 and B = burst_size >= 0, can_send(n)
\* returns true exactly when bytes_sent + n <= M + B, bytes_sent being the
\* counter after the expiry check; right after a window reset can_send(M + B)
\* is true and can_send(M + B + 1) is false.
C17_CanSendExactly ==
    config.max_bytes_per_second > 0
        => /\ ret.op = "can_send"
                 => (ret.ok <=> CounterSeen(ret) + ret.n
                                  <= config.max_bytes_per_second
                                         + config.burst_size)
           /\ (ret.op = "can_send" /\ CounterSeen(ret) = 0
                   /\ ret.n = config.max_bytes_per_second + config.burst_size)
                 => ret.ok
           /\ (ret.op = "can_send" /\ CounterSeen(ret) = 0
                   /\ ret.n = config.max_bytes_per_second + config.burst_size + 1)
                 => ~ret.ok

C17_Witness ==
    /\ config.max_bytes_per_second > 0
    /\ config.burst_size > 0
    /\ ret.op = "can_send"
    /\ ret.th.bytes_sent > 0
    /\ CounterSeen(ret) = 0
    /\ ret.n = config.max_bytes_per_second + config.burst_size
    /\ ret.ok

\* C18: for M > 0 and a window that has not expired, get_delay(n) is 0 when
\* n <= max(0, M - bytes_sent), and otherwise it is
\* min((n - max(0, M - bytes_sent)) / M * reset_interval,
\*     reset_interval - elapsed).
C18_DelayFormula ==
    (/\ config.max_bytes_per_second > 0
     /\ ret.op = "get_delay"
     /\ ret.t - ret.th.last_reset < config.reset_interval)
        => LET M == config.max_bytes_per_second
               available == IF M - ret.th.bytes_sent > 0
                            THEN M - ret.th.bytes_sent ELSE 0
               elapsed == ret.t - ret.th.last_reset
               \* delay * M = (n - available) * reset_interval
               exact == ((ret.n - available) * config.reset_interval) \div M
               remaining == config.reset_interval - elapsed
           IN  /\ ((ret.n - available) * config.reset_interval) % M = 0
               /\ ret.delay = IF ret.n <= available THEN 0
                              ELSE IF exact <= remaining THEN exact
                              ELSE remaining

C18_Witness ==
    /\ config.max_bytes_per_second = 2
    /\ ret.op = "get_delay"
    /\ ret.th.bytes_sent = 3
    /\ ret.t = ret.th.last_reset
    /\ ret.n = 1
    /\ ret.delay = Ticks

\* C19: for a fixed throttler state get_delay(n1) <= get_delay(n2) whenever
\* n1 <= n2, and every value get_delay returns is at most the time remaining
\* in the current window, hence at most reset_interval.
C19_DelayMonotoneAndCapped ==
    /\ \A n1, n2 \in 0..MaxBytes :
          n1 <= n2 => get_delay(throttler[1], n1, now)
                          <= get_delay(throttler[1], n2, now)
    /\ ret.op = "get_delay"
          => /\ ret.delay >= 0
             /\ ret.delay <= config.reset_interval
             /\ ret.t - ret.th.last_reset < config.reset_interval
                   => ret.delay
                          <= config.reset_interval - (ret.t - ret.th.last_reset)

C19_Witness ==
    /\ config.max_bytes_per_second > 0
    /\ ret.op = "get_delay"
    /\ ret.t - ret.th.last_reset > 0
    /\ ret.t - ret.th.last_reset < config.reset_interval
    /\ ret.n = MaxBytes
    /\ ret.delay = config.reset_interval - (ret.t - ret.th.last_reset)
    /\ ret.delay < (ret.n * config.reset_interval)
                        \div config.max_bytes_per_second

\* C20: every throttler operation first checks window expiry, so bytes_sent
\* is never incremented while now - last_reset >= reset_interval: bytes
\* recorded after a throttling sleep are counted in the window in which they
\* are sent.
C20_RecordInsideWindow ==
    [][\A s \in Sessions :
          (/\ config.max_bytes_per_second > 0
           /\ throttler'[s].bytes_sent > throttler[s].bytes_sent)
              => /\ now - throttler[s].last_reset < config.reset_interval
                 /\ throttler'[s].last_reset = throttler[s].last_reset]_vars

\* C21 (scenario C): with max_bytes_per_second = 1000, burst_size = 0,
\* reset_interval = 1.0, a 1500-byte chunk the client sends as the first
\* relayed chunk of a session is held for 0.5 s, that is for half a window,
\* before it is written to the destination.
C21_FirstChunkHeldHalfWindow ==
    [][\A s \in Sessions :
          (/\ rpc[s]["c2t"] = "in_recv"
           /\ rpc'[s]["c2t"] \in {"sleep", "record"}
           /\ relayed[s]["c2t"] = 0)
              => /\ rpc'[s]["c2t"] = "sleep"
                 /\ 2 * (wake'[s] - now) = config.reset_interval]_vars

\* A step of stop(): of a call from outside, or of the call in start()'s
\* finally.
StopStepTaken ==
    \/ stopPc' # stopPc
    \/ startPc \in {"finally", "finally_close"} /\ startPc' # startPc

\* C22: stop() is idempotent: called twice in a row, or on a server that was
\* never started, it raises nothing and leaves the state one call leaves:
\* running false, the listening socket closed, client_count and
\* total_bytes_transferred unchanged.
C22_StopIdempotent ==
    [][StopStepTaken
          => /\ client_count' = client_count
             /\ total_bytes_transferred' = total_bytes_transferred
             /\ running' # running => ~running'
             /\ server_socket' # server_socket => server_socket' = "closed"
             /\ (stopPc = "idle" /\ stopPc' = "close") => ~running'
             /\ (stopPc = "close" /\ stopPc' = "idle")
                   => server_socket' \in {"none", "closed"}
             /\ (~running /\ server_socket \in {"none", "closed"})
                   => UNCHANGED <<running, server_socket, startPc,
                                  startOutcome>>
                          \/ startPc \in {"finally", "finally_close"}]_vars

C22_Witness ==
    /\ stopCalls = 2
    /\ stopPc = "idle"
    /\ startPc = "idle"
    /\ ~running
    /\ server_socket = "none"

\* C23: stop() leaves every in-flight session unchanged: it closes no client
\* socket and no destination socket, stops no relay thread and modifies no
\* throttler; a session established before stop() keeps relaying.
C23_StopLeavesSessions ==
    /\ [][StopStepTaken => UNCHANGED <<handlerVars, throttler, relayVars>>]_vars
    /\ [](\A s \in Sessions : \A d \in Directions :
             (rpc[s][d] = "send" /\ csock[s] = "open" /\ tsock[s] = "open")
                 => ENABLED Send(s, d, TRUE))

C23_Witness ==
    /\ stopCalls >= 1
    /\ startPc = "returned"
    /\ server_socket = "closed"
    /\ rpc[1]["c2t"] = "count"
    /\ rpc[1]["t2c"] = "in_recv"
    /\ csock[1] = "open"
    /\ tsock[1] = "open"

\* C24: no protocol error, dial error or relay I/O error of a session is
\* fatal to the server: after any such failure the server is still listening
\* (running true, listening socket open) and goes on accepting connections.
ServerUp == startPc \in {"loop", "in_accept", "dispatch", "accept_err"}
SessionFailed(s) ==
    /\ Ended(s)
    /\ \/ dial[s] # "ok"
       \/ \E d \in Directions : rpc[s][d] = "done"

C24_SessionErrorsNotFatal ==
    /\ [](ServerUp => running /\ server_socket = "listening")
    /\ []((\E s \in Sessions : SessionFailed(s))
             => (bindFailed \/ ServerUp \/ startPc \in {"idle", "bound"}))
    /\ []((startPc = "in_accept" /\ \E s \in Sessions : csock[s] = "none")
             => ENABLED AcceptReturn)
    /\ [][startPc' = startPc
             => UNCHANGED <<running, server_socket, client_count>>]_vars

C24_Witness ==
    /\ hpc[1] = "done"
    /\ dial[1] = "socket_error"
    /\ hpc[2] = "join"
    /\ relayed[2]["c2t"] > 0
    /\ running
    /\ server_socket = "listening"
    /\ startPc = "in_accept"

\* The delay the throttler th of a connection owes a chunk of n bytes at
\* time t, from that throttler alone.
OwnDelay(th, n, t) ==
    LET M == config.max_bytes_per_second
        elapsed == t - th.last_reset
        available == IF M - th.bytes_sent > 0 THEN M - th.bytes_sent ELSE 0
        exact == ((n - available) * config.reset_interval) \div M
        remaining == config.reset_interval - elapsed
    IN  IF M = 0 \/ elapsed >= config.reset_interval \/ n <= available THEN 0
        ELSE IF exact <= remaining THEN exact ELSE remaining

\* C25: each accepted connection has a BandwidthThrottler of its own that no
\* other connection touches, so the delay of a connection's
\* client->destination chunk is determined by that connection's own
\* throttler, chunk and clock, whatever the other connections send.
C25_ThrottlerPerConnection ==
    [][\A s \in Sessions :
          /\ (throttler'[s] # throttler[s] \/ wake'[s] # wake[s])
                => (rpc'[s]["c2t"] # rpc[s]["c2t"] \/ hpc'[s] # hpc[s])
          /\ (rpc[s]["c2t"] = "in_recv" /\ rpc'[s]["c2t"] \in {"sleep", "record"})
                => wake'[s] - now
                       = OwnDelay(throttler[s], chunk'[s]["c2t"], now)]_vars

C25_Witness ==
    /\ throttler[2].bytes_sent > 0
    /\ throttler[1].bytes_sent = 0
    /\ throttler[1].last_reset # throttler[2].last_reset
    /\ rpc[1]["c2t"] = "sleep"
    /\ now < wake[1]

\* The statements of a throttler method that are inside "with self.lock".
InLock(c) ==
    caller[c].pc \in {"time", "check", "reset_bytes", "reset_time", "compute",
                      "read", "write", "release"}

\* What the method of calling thread c does when nothing runs between its
\* statements: the throttler it leaves, from the one it found.
AtomicEffect(c) ==
    IF caller[c].op = "record_sent"
    THEN record_sent(caller[c].seen, caller[c].n)
    ELSE AfterExpiryCheck(caller[c].seen, caller[c].t)

\* C26: can_send, get_delay and record_sent of one throttler exclude one
\* another: at most one thread is inside the lock and only that thread reads
\* or writes bytes_sent and last_reset, so a reset (counter 0, window start =
\* the caller's current_time) is still in place at the read that follows it,
\* record_sent's store adds to the counter as it is at the store, and every
\* method leaves and returns what it would if it ran alone.
C26_OneCriticalSection ==
    /\ [](\A c \in Callers :
            /\ InLock(c) => lock = c
            /\ (caller[c].pc = "compute" /\ caller[c].reset)
                  => throttler[1] = NewThrottler(caller[c].t)
            /\ caller[c].pc = "write"
                  => throttler[1].bytes_sent = caller[c].rd
            /\ caller[c].pc = "release"
                  => /\ throttler[1] = AtomicEffect(c)
                     /\ caller[c].op = "can_send" =>
                          caller[c].ok
                            = can_send(caller[c].seen, caller[c].n, caller[c].t)
                     /\ caller[c].op = "get_delay" =>
                          caller[c].delay
                            = get_delay(caller[c].seen, caller[c].n,
                                        caller[c].t))
    /\ [][/\ throttler' # throttler
             => /\ lock # 0
                /\ InLock(lock)
                /\ caller'[lock].pc # caller[lock].pc
          /\ \A c \in Callers :
                (caller[c].pc = "write" /\ caller'[c].pc = "release")
                   => throttler'[1].bytes_sent
                         = throttler[1].bytes_sent + caller[c].n]_vars

C26_Witness ==
    /\ config.max_bytes_per_second > 0
    /\ lock = 1
    /\ caller[1].op = "get_delay"
    /\ caller[1].pc = "reset_time"
    /\ caller[1].seen.bytes_sent > 0
    /\ caller[2].op = "record_sent"
    /\ caller[2].pc = "acquire"

\* The constraints on a ProxyConfig, by the name of the check of each.
Violates(cfg, name) ==
    CASE name = "port" -> ~(1 <= cfg.PROXY_PORT /\ cfg.PROXY_PORT <= MAX_PORT)
      [] name = "bandwidth limit" -> ~(cfg.MAX_BYTES_PER_SECOND >= 0)
      [] name = "burst size" -> ~(cfg.BURST_SIZE >= 0)
      [] name = "reset interval" -> ~FloatGt(cfg.RESET_INTERVAL, 0)
      [] name = "max connections" -> ~(cfg.MAX_CONNECTIONS > 0)
      [] name = "connection timeout" -> ~(cfg.CONNECTION_TIMEOUT > 0)

\* C27: validate_config returns True exactly when the port is in 1..65535,
\* MAX_BYTES_PER_SECOND >= 0, BURST_SIZE >= 0, RESET_INTERVAL > 0,
\* MAX_CONNECTIONS > 0 and CONNECTION_TIMEOUT > 0, and otherwise raises
\* ValueError naming every violated constraint.
C27_ValidatesExactly ==
    validated.result # "none" =>
        LET Violated(name) == Violates(proxy_config, name)
        IN  /\ validated.result = "True"
                <=> SelectSeq(ConfigChecks, Violated) = <<>>
            /\ validated.errors = SelectSeq(ConfigChecks, Violated)

\* C28: running is false after construction, true only after bind and listen
\* succeeded in start(), false whenever start() has returned, and whenever
\* it is true the listening socket exists and is open.
C28_Lifecycle ==
    /\ startPc \in {"idle", "bound", "returned"} => ~running
    /\ bindFailed => ~running
    /\ running => server_socket = "listening"

\* forward_data of session s, direction d, goes from position p to q.
Goes(s, d, p, q) == rpc[s][d] = p /\ rpc'[s][d] = q

\* C29: a client->destination chunk goes through get_delay(len), the sleep if
\* the delay is above zero, record_sent(len) and the write to the
\* destination, in that order and once each; the destination->client
\* direction never calls get_delay or record_sent and never sleeps, and its
\* chunk can be read and written while the other direction sleeps.
C29_ThrottleOrder ==
    /\ [][\A s \in Sessions :
            LET th == throttler[s]
                n == chunk'[s]["c2t"]
                moved(d) == rpc'[s][d] # rpc[s][d]
            IN
            /\ (rpc[s]["c2t"] = "in_recv" /\ moved("c2t"))
                  => \/ /\ Goes(s, "c2t", "in_recv", "sleep")
                        /\ get_delay(th, n, now) > 0
                        /\ wake'[s] = now + get_delay(th, n, now)
                        /\ throttler'[s] = AfterExpiryCheck(th, now)
                     \/ /\ Goes(s, "c2t", "in_recv", "record")
                        /\ get_delay(th, n, now) = 0
                        /\ throttler'[s] = AfterExpiryCheck(th, now)
                     \/ /\ Goes(s, "c2t", "in_recv", "closing")
                        /\ throttler'[s] = th
            /\ (rpc[s]["c2t"] = "sleep" /\ moved("c2t"))
                  => /\ rpc'[s]["c2t"] = "record"
                     /\ now >= wake[s]
                     /\ throttler'[s] = th
            /\ (rpc[s]["c2t"] = "record" /\ moved("c2t"))
                  => /\ rpc'[s]["c2t"] = "send"
                     /\ throttler'[s] = record_sent(th, chunk[s]["c2t"])
            /\ (rpc[s]["c2t"] = "send" /\ moved("c2t"))
                  => /\ rpc'[s]["c2t"] \in {"count", "closing"}
                     /\ throttler'[s] = th
            /\ throttler'[s] # th
                  => \/ hpc'[s] # hpc[s]
                     \/ rpc[s]["c2t"] \in {"in_recv", "record"} /\ moved("c2t")
            /\ relayed'[s]["c2t"] # relayed[s]["c2t"]
                  => /\ Goes(s, "c2t", "send", "count")
                     /\ relayed'[s]["c2t"]
                           = relayed[s]["c2t"] + chunk[s]["c2t"]
            /\ (rpc[s]["t2c"] = "in_recv" /\ moved("t2c"))
                  => rpc'[s]["t2c"] \in {"send", "closing"}
            /\ (moved("t2c") /\ ~moved("c2t") /\ hpc'[s] = hpc[s])
                  => throttler'[s] = th /\ wake'[s] = wake[s]]_vars
    /\ [](\A s \in Sessions :
            /\ rpc[s]["t2c"] \notin {"sleep", "record"}
            /\ (rpc[s]["c2t"] = "sleep" /\ csock[s] = "open")
                  => /\ rpc[s]["t2c"] = "in_recv" /\ tsock[s] = "open"
                          => ENABLED RecvData(s, "t2c", 1)
                     /\ rpc[s]["t2c"] = "send"
                          => ENABLED Send(s, "t2c", TRUE))

C29_Witness ==
    /\ rpc[1]["c2t"] = "sleep"
    /\ now < wake[1]
    /\ rpc[1]["t2c"] = "count"
    /\ relayed[1]["t2c"] > 0
    /\ relayed[1]["c2t"] = 0

\* C30: an accept error while running is true is logged and the loop goes
\* on to call accept again, with running, the listening socket and
\* client_count as they were; an accept error after stop() cleared running is
\* not logged and the loop exits.
C30_AcceptErrorHandling ==
    /\ [][/\ (startPc = "accept_err" /\ startPc' # startPc)
               => /\ startPc' = "loop"
                  /\ accept_error' = IF running THEN "logged" ELSE "silent"
                  /\ UNCHANGED <<running, server_socket, client_count>>
          /\ (startPc = "loop" /\ startPc' # startPc)
               => IF running THEN startPc' \in {"in_accept", "accept_err"}
                  ELSE startPc' = "finally"
          /\ accept_error' # accept_error => startPc = "accept_err"]_vars
    /\ []((accept_error = "silent" /\ startPc = "loop") => ~running)

C30_Witness ==
    /\ accept_error = "logged"
    /\ startPc = "in_accept"
    /\ running
    /\ server_socket = "listening"

\* Session s is between its dispatch and its end.
InProgress(s) == hpc[s] \notin {"none", "done"}

\* What belongs to session s alone.
SessionState(s) ==
    <<hpc[s], csock[s], tsock[s], log[s], greet[s], req[s], dial[s],
      throttler[s], rpc[s], chunk[s], tmp[s], wake[s], relayed[s],
      winBytes[s]>>

C32_ErrorReplyZeroFilled ==
    \A s \in Sessions :
        \A i \in 2..Len(Sent(s)) :
            Sent(s)[i][2] # 0
                => /\ Sent(s)[i] = <<5, Sent(s)[i][2], 0, 1, 0, 0, 0, 0, 0, 0>>
                   /\ Sent(s)[i][2] \in {5, 7, 8}

C32_Witness ==
    /\ req[1].head = <<5, 1, 0, 3>>
    /\ dial[1] = "socket_error"
    /\ Len(Sent(1)) = 2
    /\ Sent(1)[2] = <<5, 5, 0, 1, 0, 0, 0, 0, 0, 0>>

\* A step of SpecThrottler that is a direct call of method op: the clock
\* stands and ret holds the call.
Called(op) == now' = now /\ ret'.op = op /\ ret'.th = throttler[1]

\* can_send and get_delay leave the throttler alone but for the reset at
\* window expiry; record_sent adds exactly its argument.
QueriesKeepBudget ==
    LET th == throttler[1]
        expires == config.max_bytes_per_second > 0 /\ Expired(th, now)
    IN  /\ (Called("can_send") \/ Called("get_delay"))
              => throttler'[1] = IF expires THEN NewThrottler(now) ELSE th
        /\ Called("record_sent")
              => throttler'[1] = [th EXCEPT !.bytes_sent = @ + ret'.n]
        /\ throttler'[1].bytes_sent > th.bytes_sent => Called("record_sent")

\* The call is a repetition, inside one window, of the query ret holds.
Repeats(op) ==
    /\ Called(op)
    /\ ret.op = op
    /\ ret'.n = ret.n
    /\ ~Expired(ret.th, ret.t)
    /\ ~Expired(throttler[1], now)

\* C33 as stated: neither query consumes budget, so a query repeated in one
\* window gives the same answer, can_send and get_delay alike.
C33_SameAnswersInWindow ==
    [][/\ QueriesKeepBudget
       /\ Repeats("can_send") => ret'.ok = ret.ok
       /\ Repeats("get_delay") => ret'.delay = ret.delay]_vars

\* C33, amended: can_send and get_delay never consume budget (apart from the
\* reset on window expiry bytes_sent is unchanged, only record_sent
\* increases it, by exactly its argument); can_send repeated in one window
\* gives the same answer, and get_delay repeated in one window gives the
\* same delay up to its cap, the time that remains in the window at the call.
C33_QueriesConsumeNothing ==
    [][/\ QueriesKeepBudget
       /\ Repeats("can_send") => ret'.ok = ret.ok
       /\ (Called("can_send") /\ config.max_bytes_per_second > 0
             /\ AfterExpiryCheck(throttler[1], now).bytes_sent = 0
             /\ config.burst_size > 0
             /\ ret'.n <= config.max_bytes_per_second + config.burst_size)
            => ret'.ok
       /\ Repeats("get_delay")
            => /\ ret'.th = ret.th
               /\ ret'.delay
                    = Min(get_delay_uncapped(ret.th, ret.n, ret.t),
                          config.reset_interval - (now - ret.th.last_reset))
               /\ now = ret.t => ret'.delay = ret.delay]_vars

C33_Witness ==
    /\ config = BandwidthConfig(2, 1)
    /\ ret.op = "get_delay"
    /\ ret.n = MaxBytes
    /\ ret.th.bytes_sent > 0
    /\ ret.t > ret.th.last_reset
    /\ ret.delay = config.reset_interval - (ret.t - ret.th.last_reset)
    /\ throttler[1] = ret.th

\* forward_data of session s calls get_delay for the chunk it has read.
AsksDelay(s) ==
    rpc[s]["c2t"] = "in_recv" /\ rpc'[s]["c2t"] \in {"sleep", "record"}

\* C34 as stated: a get_delay call that finds the window expired returns 0
\* and resets the window, and the first client->destination chunk of every
\* window (nothing recorded in the window yet) is written without delay.
C34_FirstChunkOfWindowFree ==
    [][\A s \in Sessions :
          (AsksDelay(s) /\ config.max_bytes_per_second > 0)
            => /\ Expired(throttler[s], now)
                    => /\ rpc'[s]["c2t"] = "record"
                       /\ throttler'[s] = NewThrottler(now)
               /\ throttler'[s].bytes_sent = 0
                    => rpc'[s]["c2t"] = "record"]_vars

\* C34, amended: a get_delay call that finds the window expired returns 0
\* for every n and resets the window, so the chunk of that call is written
\* without delay whatever its size and whatever was sent before; the first
\* chunk of a window that is still running (the window that began when the
\* throttler was created) is delayed when it is larger than M.
C34_ExpiredWindowFree ==
    [][\A s \in Sessions :
          (AsksDelay(s) /\ config.max_bytes_per_second > 0)
            => /\ Expired(throttler[s], now)
                    => /\ rpc'[s]["c2t"] = "record"
                       /\ wake'[s] = now
                       /\ throttler'[s] = NewThrottler(now)
               /\ (~Expired(throttler[s], now)
                     /\ chunk'[s]["c2t"] > config.max_bytes_per_second)
                    => /\ rpc'[s]["c2t"] = "sleep"
                       /\ wake'[s] > now
                       /\ throttler'[s] = throttler[s]]_vars

C34_Witness ==
    /\ rpc[1]["c2t"] = "record"
    /\ chunk[1]["c2t"] = RecvSize
    /\ chunk[1]["c2t"] > config.max_bytes_per_second
    /\ relayed[1]["c2t"] >= 2
    /\ throttler[1] = NewThrottler(now)

\* C35: a CONNECT request with ATYP = 0x04, 16 address bytes and a 2-byte
\* port is parsed to that address and port and dialled there, and the dial
\* can succeed (a destination that accepts connections is connected to) as
\* for an IPv4 request.
C35_IPv6Established ==
    \A s \in Sessions :
        (/\ hpc[s] = "dial"
         /\ FullyParsed(req[s])
         /\ req[s].head[4] = 4)
            => /\ Dest(s).some
               /\ Dest(s).addr = inet_ntop6(req[s].addr)
               /\ Dest(s).port = unpack_H(req[s].port)
               /\ "ok" \in ConnectOutcomes(Dest(s).addr)

\* C36: stop() is safe at any point of a concurrent start(): once a call of
\* stop() has returned, an accept that fails on the closed listening socket
\* finds running false, so the loop exits instead of retrying.
C36_StopSafeDuringStart ==
    (/\ startPc = "accept_err"
     /\ server_socket = "closed"
     /\ stopCalls >= 1
     /\ stopPc = "idle")
        => ~running

\* C39: a reply with REP = 0x08 is sent only to a request whose ATYP is none
\* of 0x01, 0x03, 0x04: a request with a supported ATYP that is truncated,
\* or names an empty or undecodable domain, is never answered with
\* ADDRESS_TYPE_NOT_SUPPORTED.
C39_Rep8OnlyForUnknownAtyp ==
    \A s \in Sessions :
        (\E i \in 2..Len(Sent(s)) :
             Sent(s)[i] = ErrorReply(ADDRESS_TYPE_NOT_SUPPORTED))
            => req[s].head[4] \notin {IPV4, DOMAIN_NAME, IPV6}

\* What a session with burstSize = 0, the same M, the same resetInterval and
\* the same chunks at the same times waits for a chunk of n bytes at time t:
\* its window has sent the same bytes, and what exceeds M waits for the
\* share of the interval its excess takes, the rest of the window at most.
DelayAtBurstZero(th, n, t) ==
    LET M == config.max_bytes_per_second
        left == config.reset_interval - (t - th.last_reset)
        over == th.bytes_sent + n - M
    IN  IF M = 0 \/ left <= 0 \/ over <= 0 THEN 0
        ELSE Min((Min(over, n) * config.reset_interval) \div M, left)

\* The client->target thread of session s takes a chunk from recv and asks
\* the throttler for its delay.
TakesChunk(s) ==
    /\ rpc[s]["c2t"] = "in_recv"
    /\ rpc'[s]["c2t"] \in {"sleep", "record"}

\* C40: with burstSize = B > 0, a chunk that fits within M + B and that a
\* session with burstSize = 0 would delay is delayed less by the relay than
\* that session delays it.
C40_BurstShortensDelay ==
    [][\A s \in Sessions :
          (/\ TakesChunk(s)
           /\ config.burst_size > 0
           /\ throttler[s].bytes_sent + chunk'[s]["c2t"]
                  <= config.max_bytes_per_second + config.burst_size
           /\ DelayAtBurstZero(throttler[s], chunk'[s]["c2t"], now) > 0)
              => wake'[s] - now
                     < DelayAtBurstZero(throttler[s], chunk'[s]["c2t"], now)]_vars

\* C37: the 10-second timeout applies to the dial only.  An established
\* session is never ended because the destination sent nothing for 10
\* seconds or longer: its sockets are not closed after a recv that timed out
\* while the client's side has seen neither end of stream nor an error.
C37_SilenceNeverEnds ==
    \A s \in Sessions :
        ~(/\ timed_out[s]
          /\ silent[s] * SecondsPerTick >= TARGET_TIMEOUT
          /\ rpc[s]["c2t"] = "in_recv"
          /\ csock[s] = "closed"
          /\ tsock[s] = "closed")

\* C38: in each direction the bytes written are, in order, a prefix of the
\* bytes read; once the loop is back at recv every byte read has been
\* written, also after a write that accepted fewer bytes than the chunk
\* holds; and total_bytes_transferred is the number of bytes written (here
\* by the one direction that carries data).
C38_StreamIntact ==
    \A s \in Sessions :
        /\ \A d \in Directions :
              LET st == stream[s][d]
              IN  /\ \A i \in 1..Len(st.written) : st.written[i] = i
                  /\ rpc[s][d] = "in_recv" => Len(st.written) = st.read
        /\ (rpc[s]["c2t"] = "in_recv" /\ stream[s]["t2c"].read = 0)
              => total_bytes_transferred = Len(stream[s]["c2t"].written)

====
